---- MODULE Spec2Model ----
(***************************************************************************)
(* The segmented webgraph store: writers produce segments, the facade      *)
(* (Webgraph) holds the committed segments of a graph directory, answers   *)
(* adjacency queries across them and supports merge(other) and             *)
(* merge_all_segments.                                                     *)
(***************************************************************************)
EXTENDS Integers, Sequences, FiniteSets, TLC

\* ---------------------------------------------------------------- bounds
NumGraphs == 3
NumQueryGraphs == 2
NumNodes == 3
MaxSortKey == 2
MaxInserts == 2
MaxQueryInserts == 3
MaxCompactions == 1
MaxLimit == 2
MaxStepInserts == 2
MaxInputs == 3
MaxEdgesPerInput == 2
MAX_LABEL_LENGTH == 3
MaxLabelInserts == 2
NumLabelNodes == 2
NumThreads == 2
MaxReadInserts == 2
NumOperandLabels == 2
NumDedupSegments == 3
MaxReopens == 1
MaxSample == 3
MaxStrLen == 3
MaxWarcFiles == 2
MaxLinksPerFile == 2
NumDomains == 2

Paths == 1..NumGraphs
Nodes == 1..NumNodes
QueryPaths == 1..NumQueryGraphs

\* a String is the sequence of its chars; a char carries its UTF-8 length
Char(c, len_utf8) == [c |-> c, len_utf8 |-> len_utf8]

\* the (anchor text, rel flags) pairs the writers are fed
Payloads == {[label |-> <<Char("x", 1)>>, rel |-> 0], [label |-> <<Char("y", 1)>>, rel |-> 1]}

\* ------------------------------------------------------------ node identity
\* Node::id(): a deterministic fingerprint of the canonical node string.
NodeIdOf(n) == (n * 7) % 11

NodeIDs == {NodeIdOf(n) : n \in Nodes}

\* the host rank a writer stores as the sort key of a node
SortKeyOf(id) == (id % MaxSortKey) + 1

VARIABLES
  phase,          \* per directory: "writer", "open" (a Webgraph) or "gone"
  wbuf,           \* per writer: the buffered edges
  segments,       \* per Webgraph: Vec<Segment>, the open handles
  meta,           \* per Webgraph or writer: Meta.comitted_segments
  id2node,        \* per directory: the Id2NodeDb, NodeID -> Node
  disk_meta,      \* per directory: the list metadata.json holds
  dir_exists,     \* per directory: the graph root exists
  disk_segments,  \* segment id -> [path, data]: the segment directories
  next_uuid,      \* the next id Uuid::new_v4 hands to merge_all_segments
  inserted,       \* the number of edges inserted so far
  absorbed,       \* history: directory -> the graph it was merged into (0: none)
  compacted,      \* history: <<graph, id, n>>: merge_all_segments made id from n segments
  metadata_json,  \* per directory: the text of metadata.json, token by token
  pc,             \* per Webgraph: the call in progress and the line it has reached
  optimized,      \* per Webgraph: what optimize_read has warmed up
  mi_inputs,      \* MergeIter: the inputs it was built from
  mi_iters,       \* MergeIter: what is left of every input
  mi_buf,         \* MergeIter: the caller's buf
  mi_log,         \* history: what every call of advance returned and left in buf
  em_inputs,      \* EdgeMerger: the inputs it was built from
  em_iters,       \* EdgeMerger: what is left of every input
  em_log,         \* history: what every call of next returned
  inserted_edges, \* history: the edges as they were handed to insert
  opens,          \* history, per directory: how often it was opened again and the
                  \* metadata.json the last of these opens found
  readers,        \* per reading thread: the query it runs, the segments it has looked
                  \* up, and (history) the facade as the query found it
  compared,       \* the operands handed to cmp and eq, and what they returned
  copies,        \* the adjacency lists a query found in the segments, and what it returned
  sampled,        \* history: what random_nodes_with_outgoing returned last
  highlighted,    \* the arguments handed to highlight, and what it returned
  job             \* the ingestion job: its WARC files, the line it has reached, the
                  \* graph it fills and (history) what it has done so far

webgraph_vars == <<phase, wbuf, segments, meta, id2node, disk_meta, dir_exists,
                   disk_segments, next_uuid, inserted, absorbed, compacted>>
step_vars == <<metadata_json, pc, optimized>>
mi_vars == <<mi_inputs, mi_iters, mi_buf, mi_log>>
em_vars == <<em_inputs, em_iters, em_log>>
pure_vars == <<compared, copies, sampled, highlighted, job>>
aux_vars == <<inserted_edges, readers, opens, pure_vars>>

vars == <<webgraph_vars, step_vars, mi_vars, em_vars, aux_vars>>

\* ------------------------------------------------------------- sequences
Min(S) == CHOOSE x \in S : \A y \in S : x <= y
Max(S) == CHOOSE x \in S : \A y \in S : x >= y

Range(f) == {f[i] : i \in DOMAIN f}

Take(s, n) == SubSeq(s, 1, IF n < Len(s) THEN n ELSE Len(s))

\* slice::sort_by_key / sort_by on edges: a stable sort on the key
\* e.<side>.<field>, side "from" or "to", field "id" or "sort_key"
StableSortByKey(s, side, field) ==
  LET pos(i) == 1 + Cardinality({j \in 1..Len(s) :
                     \/ s[j][side][field] < s[i][side][field]
                     \/ (s[j][side][field] = s[i][side][field] /\ j < i)})
  IN [p \in 1..Len(s) |-> s[CHOOSE i \in 1..Len(s) : pos(i) = p]]

\* a dedup that keeps the last of each run of consecutive equal keys
DedupByKey_keep_last(s, side) ==
  LET kept == {i \in 1..Len(s) : i = Len(s) \/ s[i][side].id # s[i + 1][side].id}
  IN [p \in 1..Cardinality(kept) |->
        s[CHOOSE i \in kept : Cardinality({j \in kept : j <= i}) = p]]

\* Vec::dedup_by_key on the key e.<side>.id: of each run of consecutive equal
\* keys keep the first
DedupByKey(s, side) ==
  LET kept == {i \in 1..Len(s) : i = 1 \/ s[i][side].id # s[i - 1][side].id}
  IN [p \in 1..Cardinality(kept) |->
        s[CHOOSE i \in kept : Cardinality({j \in kept : j <= i}) = p]]

NoDup(s) == \A i, j \in 1..Len(s) : s[i] = s[j] => i = j


RECURSIVE Flatten(_)
Flatten(ss) == IF ss = <<>> THEN <<>> ELSE Head(ss) \o Flatten(Tail(ss))

\* ------------------------------------------------------------ merge.rs
NodeDatum(node, sort_key) == [id |-> node, sort_key |-> sort_key]

\* an order on NodeDatum that looks at the sort key alone
NodeDatumCmp_sort_key_only(a, b) ==
  IF a.sort_key < b.sort_key THEN -1 ELSE IF a.sort_key > b.sort_key THEN 1 ELSE 0

\* impl Ord for NodeDatum: (sort_key, id) lexicographically; -1, 0 or 1
NodeDatumCmp(a, b) ==
  IF a.sort_key < b.sort_key THEN -1
  ELSE IF a.sort_key > b.sort_key THEN 1
  ELSE IF a.id < b.id THEN -1
  ELSE IF a.id > b.id THEN 1
  ELSE 0

\* impl PartialEq for NodeDatum: the id and the sort key
NodeDatumEq(a, b) == a.id = b.id /\ a.sort_key = b.sort_key

\* an order on StoredEdge that tells edges to one neighbor apart by their rel
StoredEdgeCmp_then_rel(a, b) ==
  IF NodeDatumCmp(a.other, b.other) # 0 THEN NodeDatumCmp(a.other, b.other)
  ELSE IF a.rel < b.rel THEN -1 ELSE IF a.rel > b.rel THEN 1 ELSE 0

\* impl Ord for StoredEdge: the neighbor datum alone
StoredEdgeCmp(a, b) == NodeDatumCmp(a.other, b.other)

\* impl PartialEq for StoredEdge: the neighbor datum alone
StoredEdgeEq(a, b) == NodeDatumEq(a.other, b.other)

\* Ordering of the peekable inputs inside the min-heap: by head element, an
\* exhausted input after every input that still has a head.
PeekableCmp(a, b) ==
  IF a = <<>> /\ b = <<>> THEN 0
  ELSE IF a = <<>> THEN 1
  ELSE IF b = <<>> THEN -1
  ELSE StoredEdgeCmp(Head(a), Head(b))

TieBreaks == {"first", "last"}

\* BinaryHeap::peek_mut on the min-heap: an input no other input is smaller
\* than; which of several equal inputs sits on top is left to the heap.
HeapTop(iters, tb) ==
  LET minimal == {i \in 1..Len(iters) :
                    \A j \in 1..Len(iters) : PeekableCmp(iters[j], iters[i]) >= 0}
  IN IF tb = "first" THEN Min(minimal) ELSE Max(minimal)

\* Peekable::next on input i
PeekableNext(iters, i) == [iters EXCEPT ![i] = Tail(@)]

\* EdgeMerger::next without its while loop: nothing is dropped
EdgeMergerSkip_nothing(iters, sort_key, tb) == iters

\* the while loop of EdgeMerger::next: drop heads on top of the heap that
\* carry the sort key just emitted
RECURSIVE EdgeMergerSkip(_, _, _)
EdgeMergerSkip(iters, sort_key, tb) ==
  IF Len(iters) = 0 THEN iters
  ELSE LET top == HeapTop(iters, tb)
       IN IF iters[top] # <<>> /\ Head(iters[top]).other.sort_key = sort_key
          THEN EdgeMergerSkip(PeekableNext(iters, top), sort_key, tb)
          ELSE iters

\* EdgeMerger::next, iterated until it returns None: the emitted sequence
RECURSIVE EdgeMerger(_, _)
EdgeMerger(iters, tb) ==
  IF Len(iters) = 0 THEN <<>>
  ELSE LET top == HeapTop(iters, tb)
       IN IF iters[top] = <<>> THEN <<>>
          ELSE LET edge == Head(iters[top])
               IN <<edge>> \o EdgeMerger(
                    EdgeMergerSkip(PeekableNext(iters, top), edge.other.sort_key, tb), tb)

\* MergeNode::new and with_ord: the node, its edge range and the index of the
\* input the record comes from (() before MergeIter::new tags it)
MergeNode(node, range, ord) == [node |-> node, range |-> range, ord |-> ord]

\* impl Ord for MergeNode: the node alone
MergeNodeCmp(a, b) == IF a.node < b.node THEN -1 ELSE IF a.node > b.node THEN 1 ELSE 0

\* impl PartialEq for MergeNode: the node alone
MergeNodeEq(a, b) == a.node = b.node

\* Ordering of the peekable inputs of MergeIter inside the min-heap: by head
\* record, an exhausted input after every input that still has a head.
PeekableNodeCmp(a, b) ==
  IF a = <<>> /\ b = <<>> THEN 0
  ELSE IF a = <<>> THEN 1
  ELSE IF b = <<>> THEN -1
  ELSE MergeNodeCmp(Head(a), Head(b))

\* BinaryHeap::peek_mut on the min-heap of MergeIter
MergeIterTop(iters, tb) ==
  LET minimal == {i \in 1..Len(iters) :
                    \A j \in 1..Len(iters) : PeekableNodeCmp(iters[j], iters[i]) >= 0}
  IN IF tb = "first" THEN Min(minimal) ELSE Max(minimal)

\* MergeIter::new: every record of input number ord (counted from 0) is
\* tagged with MergeSegmentOrd(ord)
MergeIterNew(inputs) ==
  [i \in 1..Len(inputs) |->
     [p \in 1..Len(inputs[i]) |->
        MergeNode(inputs[i][p].node, inputs[i][p].range, i - 1)]]

\* the loop of advance that pushes the head of the top input once and stops
AdvanceSameNode_once(iters, buf, node, tb) ==
  IF Len(iters) = 0 THEN [iters |-> iters, buf |-> buf]
  ELSE LET top == MergeIterTop(iters, tb)
       IN IF iters[top] # <<>> /\ Head(iters[top]).node = node
          THEN [iters |-> PeekableNext(iters, top), buf |-> Append(buf, Head(iters[top]))]
          ELSE [iters |-> iters, buf |-> buf]

\* the while loop of advance: as long as the head of the top input carries
\* the node, push it to buf
RECURSIVE AdvanceSameNode(_, _, _, _)
AdvanceSameNode(iters, buf, node, tb) ==
  IF Len(iters) = 0 THEN [iters |-> iters, buf |-> buf]
  ELSE LET top == MergeIterTop(iters, tb)
       IN IF iters[top] # <<>> /\ Head(iters[top]).node = node
          THEN AdvanceSameNode(PeekableNext(iters, top), Append(buf, Head(iters[top])),
                               node, tb)
          ELSE [iters |-> iters, buf |-> buf]

\* buf.clear() left out: the records of the previous call stay in buf
BufKept(buf) == buf

\* buf.clear()
BufClear(buf) == <<>>

\* MergeIter::advance: the value returned, the inputs and buf after the call
advance(iters, buf, tb) ==
  LET cleared == BufClear(buf)
  IN IF Len(iters) = 0 THEN [ret |-> FALSE, iters |-> iters, buf |-> cleared]
     ELSE LET top == MergeIterTop(iters, tb)
          IN IF iters[top] = <<>> THEN [ret |-> FALSE, iters |-> iters, buf |-> cleared]
             ELSE LET next == Head(iters[top])
                      rest == AdvanceSameNode(PeekableNext(iters, top),
                                              Append(cleared, next), next.node, tb)
                  IN [ret |-> TRUE, iters |-> rest.iters, buf |-> rest.buf]

\* EdgeMerger::next, one call: the Option returned (a set with at most one
\* element) and the inputs after the call
EdgeMerger_next(iters, tb) ==
  IF Len(iters) = 0 THEN [res |-> {}, iters |-> iters]
  ELSE LET top == HeapTop(iters, tb)
       IN IF iters[top] = <<>> THEN [res |-> {}, iters |-> iters]
          ELSE LET edge == Head(iters[top])
               IN [res |-> {edge},
                   iters |-> EdgeMergerSkip(PeekableNext(iters, top),
                                            edge.other.sort_key, tb)]

\* ------------------------------------------------------------ segments
EmptyIndex == [n \in NodeIDs |-> <<>>]

StoredEdge(other, label, rel) == [other |-> other, label |-> label, rel |-> rel]

\* the sub-segment the writer flushes for one buffered edge
SubSegment(e) ==
  [forward |-> [EmptyIndex EXCEPT ![e.from.id] = <<StoredEdge(e.to, e.label, e.rel)>>],
   reverse |-> [EmptyIndex EXCEPT ![e.to.id] = <<StoredEdge(e.from, e.label, e.rel)>>]]

\* Segment::merge: per direction and per node, the adjacency lists of the
\* inputs fused by EdgeMerger
SegmentMerge(datas, tb) ==
  [forward |-> [n \in NodeIDs |->
                  EdgeMerger([i \in 1..Len(datas) |-> datas[i].forward[n]], tb)],
   reverse |-> [n \in NodeIDs |->
                  EdgeMerger([i \in 1..Len(datas) |-> datas[i].reverse[n]], tb)]]

\* ------------------------------------------------------------ EdgeLimit
Unlimited == [tag |-> "Unlimited", n |-> 0]
Limit(n) == [tag |-> "Limit", n |-> n]
Limits == {Unlimited} \cup {Limit(n) : n \in 0..MaxLimit}

\* EdgeLimit::apply
EdgeLimitApply(limit, it) == IF limit.tag = "Unlimited" THEN it ELSE Take(it, limit.n)

\* ------------------------------------------------- segment adjacency lookup
\* In the operators below `fs` is the set of segment directories on disk
\* (segment id -> [path, data]) and `self` is a Webgraph:
\* [path, segments, id2node, meta].
EmptyData == [forward |-> EmptyIndex, reverse |-> EmptyIndex]

\* a handle reads its directory path/segments/id
Readable(fs, segment) ==
  segment.id \in DOMAIN fs /\ fs[segment.id].path = segment.path

\* the content of the segment behind an open handle; a handle whose directory
\* is missing yields no edges
SegmentData(fs, segment) ==
  IF Readable(fs, segment) THEN fs[segment.id].data ELSE EmptyData

SegmentEdge(from, to, label, rel) == [from |-> from, to |-> to, label |-> label, rel |-> rel]

\* Segment::outgoing_edges_with_label: the node's forward adjacency list,
\* already sorted by NodeDatum, decoded up to the limit
Segment_outgoing_edges_with_label(fs, segment, node, limit) ==
  LET es == EdgeLimitApply(limit, SegmentData(fs, segment).forward[node])
  IN [i \in 1..Len(es) |->
        SegmentEdge(NodeDatum(node, SortKeyOf(node)), es[i].other, es[i].label, es[i].rel)]

\* Segment::outgoing_edges: the same without materializing the label
Segment_outgoing_edges(fs, segment, node, limit) ==
  LET es == EdgeLimitApply(limit, SegmentData(fs, segment).forward[node])
  IN [i \in 1..Len(es) |->
        SegmentEdge(NodeDatum(node, SortKeyOf(node)), es[i].other, "()", es[i].rel)]

Segment_ingoing_edges_with_label(fs, segment, node, limit) ==
  LET es == EdgeLimitApply(limit, SegmentData(fs, segment).reverse[node])
  IN [i \in 1..Len(es) |->
        SegmentEdge(es[i].other, NodeDatum(node, SortKeyOf(node)), es[i].label, es[i].rel)]

Segment_ingoing_edges(fs, segment, node, limit) ==
  LET es == EdgeLimitApply(limit, SegmentData(fs, segment).reverse[node])
  IN [i \in 1..Len(es) |->
        SegmentEdge(es[i].other, NodeDatum(node, SortKeyOf(node)), "()", es[i].rel)]

\* the elements of a finite set of integers in ascending order
SortedSeq(S) ==
  [p \in 1..Cardinality(S) |-> CHOOSE x \in S : Cardinality({y \in S : y <= x}) = p]

\* Segment::edges: full scan of the forward index, node after node
Segment_edges(fs, segment) ==
  Flatten([p \in 1..Cardinality(NodeIDs) |->
    LET n == SortedSeq(NodeIDs)[p]
        es == SegmentData(fs, segment).forward[n]
    IN [i \in 1..Len(es) |->
          [from |-> n, to |-> es[i].other.id, label |-> "()", rel |-> es[i].rel]]])

\* ---------------------------------------------------------------- queries
\* Webgraph::id2node: Option<Node> as a set with at most one element
Id2Node(self, id) == IF id \in DOMAIN self.id2node THEN {self.id2node[id]} ELSE {}

\* a dedup closure that skips the sort by NodeID: dedup_by_key alone removes
\* only adjacent repetitions
DedupTo_without_sort(edges) == DedupByKey(edges, "to")

\* the dedup closure of the ingoing queries
DedupFrom(edges) == DedupByKey(StableSortByKey(edges, "from", "id"), "from")

\* the dedup closure of the outgoing queries
DedupTo(edges) == DedupByKey(StableSortByKey(edges, "to", "id"), "to")

\* the loader closures of the queries, named after the Segment method they call
Loader(loader, fs, segment, node, limit) ==
  CASE loader = "outgoing_edges" -> Segment_outgoing_edges(fs, segment, node, limit)
    [] loader = "outgoing_edges_with_label" ->
         Segment_outgoing_edges_with_label(fs, segment, node, limit)
    [] loader = "ingoing_edges" -> Segment_ingoing_edges(fs, segment, node, limit)
    [] loader = "ingoing_edges_with_label" ->
         Segment_ingoing_edges_with_label(fs, segment, node, limit)

\* Webgraph::inner_edges: executor.map of the loader over the segments in list
\* order, flattened, then the caller's dedup ("from" or "to")
inner_edges(self, fs, loader, node, limit, dedup) ==
  LET edges == Flatten([i \in 1..Len(self.segments) |->
                          Loader(loader, fs, self.segments[i], node, limit)])
  IN IF dedup = "from" THEN DedupFrom(edges) ELSE DedupTo(edges)

Edge(e) == [from |-> e.from.id, to |-> e.to.id, label |-> e.label, rel |-> e.rel]

\* the closure building FullEdge: both endpoints resolved through id2node;
\* unwrap of a missing row panics
FullEdges(self, es) ==
  [panic |-> \E i \in 1..Len(es) :
               Id2Node(self, es[i].from.id) = {} \/ Id2Node(self, es[i].to.id) = {},
   edges |-> [i \in 1..Len(es) |->
                [from |-> Id2Node(self, es[i].from.id), to |-> Id2Node(self, es[i].to.id),
                 label |-> es[i].label]]]

ingoing_edges(self, fs, node, limit) ==
  LET edges == inner_edges(self, fs, "ingoing_edges_with_label", NodeIdOf(node), limit, "from")
      sorted == StableSortByKey(edges, "from", "sort_key")
  IN FullEdges(self, EdgeLimitApply(limit, sorted))

\* raw_ingoing_edges that leaves the edges in the order of the dedup (by NodeID)
raw_ingoing_edges_without_resort(self, fs, node, limit) ==
  LET edges == inner_edges(self, fs, "ingoing_edges", node, limit, "from")
      limited == EdgeLimitApply(limit, edges)
  IN [i \in 1..Len(limited) |-> Edge(limited[i])]

raw_ingoing_edges(self, fs, node, limit) ==
  LET edges == inner_edges(self, fs, "ingoing_edges", node, limit, "from")
      sorted == StableSortByKey(edges, "from", "sort_key")
      limited == EdgeLimitApply(limit, sorted)
  IN [i \in 1..Len(limited) |-> Edge(limited[i])]

raw_ingoing_edges_with_labels(self, fs, node, limit) ==
  LET edges == inner_edges(self, fs, "ingoing_edges_with_label", node, limit, "from")
      sorted == StableSortByKey(edges, "from", "sort_key")
      limited == EdgeLimitApply(limit, sorted)
  IN [i \in 1..Len(limited) |-> Edge(limited[i])]

raw_outgoing_edges_with_labels(self, fs, node, limit) ==
  LET edges == inner_edges(self, fs, "outgoing_edges_with_label", node, limit, "to")
      sorted == StableSortByKey(edges, "to", "sort_key")
      limited == EdgeLimitApply(limit, sorted)
  IN [i \in 1..Len(limited) |-> Edge(limited[i])]

\* outgoing_edges that first resolves the queried node through id2node and
\* unwraps the row
outgoing_edges_resolving_node(self, fs, node, limit) ==
  LET edges == inner_edges(self, fs, "outgoing_edges_with_label", NodeIdOf(node), limit, "to")
      sorted == StableSortByKey(edges, "to", "sort_key")
      full == FullEdges(self, EdgeLimitApply(limit, sorted))
  IN [full EXCEPT !.panic = @ \/ Id2Node(self, NodeIdOf(node)) = {}]

\* outgoing_edges that relies on the limit given to every segment and does not
\* apply it to the gathered edges
outgoing_edges_limit_per_segment(self, fs, node, limit) ==
  LET edges == inner_edges(self, fs, "outgoing_edges_with_label", NodeIdOf(node), limit, "to")
      sorted == StableSortByKey(edges, "to", "sort_key")
  IN FullEdges(self, sorted)

outgoing_edges(self, fs, node, limit) ==
  LET edges == inner_edges(self, fs, "outgoing_edges_with_label", NodeIdOf(node), limit, "to")
      sorted == StableSortByKey(edges, "to", "sort_key")
  IN FullEdges(self, EdgeLimitApply(limit, sorted))

\* raw_outgoing_edges that applies the limit before the sort by sort_key
raw_outgoing_edges_limit_before_sort(self, fs, node, limit) ==
  LET edges == inner_edges(self, fs, "outgoing_edges", node, Unlimited, "to")
      limited == EdgeLimitApply(limit, edges)
      sorted == StableSortByKey(limited, "to", "sort_key")
  IN [i \in 1..Len(sorted) |-> Edge(sorted[i])]

raw_outgoing_edges(self, fs, node, limit) ==
  LET edges == inner_edges(self, fs, "outgoing_edges", node, limit, "to")
      sorted == StableSortByKey(edges, "to", "sort_key")
      limited == EdgeLimitApply(limit, sorted)
  IN [i \in 1..Len(limited) |-> Edge(limited[i])]

\* an edges() that passes over an edge an earlier segment of the list has
\* yielded already
edges_without_repetition(self, fs) ==
  Flatten([i \in 1..Len(self.segments) |->
     SelectSeq(Segment_edges(fs, self.segments[i]),
               LAMBDA e : \A j \in 1..(i - 1) :
                            e \notin Range(Segment_edges(fs, self.segments[j])))])

\* Webgraph::edges: flat_map over the segments' edges(), in list order
edges(self, fs) ==
  Flatten([i \in 1..Len(self.segments) |-> Segment_edges(fs, self.segments[i])])

\* ------------------------------------------------------------------ state
\* the position of a Webgraph inside a call: the operation, the line reached,
\* the locals, the state the call started from and what the last call returned
Pc(op, at, other, i, taken, id, before, ret) ==
  [op |-> op, at |-> at, other |-> other, i |-> i, taken |-> taken, id |-> id,
   before |-> before, ret |-> ret]

NoBefore == [segments |-> <<>>, meta |-> <<>>, json |-> <<>>]

\* no call in progress
Idle == Pc("idle", "", 0, 0, <<>>, 0, NoBefore, "")

\* no graph written yet
InitWebgraph ==
  /\ phase = [g \in Paths |-> "writer"]
  /\ wbuf = [g \in Paths |-> <<>>]
  /\ segments = [g \in Paths |-> <<>>]
  /\ meta = [g \in Paths |-> <<>>]
  /\ id2node = [g \in Paths |-> <<>>]
  /\ disk_meta = [g \in Paths |-> <<>>]
  /\ dir_exists = [g \in Paths |-> TRUE]
  /\ disk_segments = <<>>
  /\ next_uuid = NumGraphs + 1
  /\ inserted = 0
  /\ absorbed = [g \in Paths |-> 0]
  /\ compacted = {}
  /\ metadata_json = [g \in Paths |-> <<>>]
  /\ pc = [g \in Paths |-> Idle]
  /\ optimized = [g \in Paths |-> [segments |-> {}, id2node |-> FALSE]]

\* no MergeIter built
NoMergeIter == mi_inputs = <<>> /\ mi_iters = <<>> /\ mi_buf = <<>> /\ mi_log = <<>>

\* no EdgeMerger built
NoEdgeMerger == em_inputs = <<>> /\ em_iters = <<>> /\ em_log = <<>>

Threads == 1..NumThreads

\* a thread that runs no query
NoQuery ==
  [st |-> "idle", g |-> 0, q |-> 0, u |-> 0, limit |-> Unlimited, loaded |-> <<>>,
   order |-> <<>>, result |-> <<>>, self |-> <<>>]

\* nothing recorded yet, no thread reading
NoReads == inserted_edges = {} /\ readers = [t \in Threads |-> NoQuery]
NoOpens == opens = [g \in Paths |-> [n |-> 0, exists |-> FALSE, found |-> <<>>]]
NoCompared == compared = <<>>
NoCopies == copies = <<>>
NoSampled == sampled = [g |-> 0, num |-> 0, edges |-> <<>>, nodes |-> <<>>]
NoHighlighted == highlighted = <<>>
NoJob == job = <<>>
NoAux == NoReads /\ NoOpens /\ NoCompared /\ NoCopies /\ NoSampled /\ NoHighlighted /\ NoJob

Init == InitWebgraph /\ NoMergeIter /\ NoEdgeMerger /\ NoAux

\* Id2NodeDb::put: last writer wins
Id2NodePut(db, id, node) == (id :> node) @@ db

\* Id2NodeDb::merge: the union of the rows; a NodeID is the hash of its node,
\* so rows of the same id agree
Id2NodeMerge(self, other) == self @@ other

\* Segment::open(path, id): a handle on the directory path/segments/id
SegmentOpen(path, id) == [id |-> id, path |-> path]

\* Segment::id of every handle of a list
SegmentIds(handles) == [i \in 1..Len(handles) |-> handles[i].id]

\* Meta::open: the committed list of metadata.json, the default (empty) list
\* when the file is missing or empty
MetaOpen(g) == IF dir_exists[g] THEN disk_meta[g] ELSE <<>>

\* an open that takes every directory it finds under path/segments
OpenSegments_every_dir(g, comitted_segments) ==
  LET found == {id \in DOMAIN disk_segments : disk_segments[id].path = g}
  IN [p \in 1..Cardinality(found) |->
        SegmentOpen(g, CHOOSE id \in found : Cardinality({j \in found : j <= id}) = p)]

\* the segments Webgraph::open pushes for a committed list
OpenSegments(g, comitted_segments) ==
  [i \in 1..Len(comitted_segments) |-> SegmentOpen(g, comitted_segments[i])]

\* Webgraph::open on the directory of a writer that is dropped unused
Open(g) ==
  /\ phase[g] = "writer"
  /\ wbuf[g] = <<>>
  /\ \A h \in 1..(g - 1) : phase[h] # "writer"
  /\ dir_exists' = [dir_exists EXCEPT ![g] = TRUE]
  /\ meta' = [meta EXCEPT ![g] = MetaOpen(g)]
  /\ segments' = [segments EXCEPT ![g] = OpenSegments(g, MetaOpen(g))]
  /\ phase' = [phase EXCEPT ![g] = "open"]
  /\ UNCHANGED <<wbuf, id2node, disk_meta, disk_segments, next_uuid, inserted, absorbed,
                 compacted>>

\* String::len: the length in bytes
RECURSIVE StrLen(_)
StrLen(str) == IF str = <<>> THEN 0 ELSE Head(str).len_utf8 + StrLen(Tail(str))

\* a cap that counts chars where the writer counts bytes
TruncateLabel_chars(label) == Take(label, MAX_LABEL_LENGTH)

\* the cap of the writer: the longest prefix of the label that is at most
\* MAX_LABEL_LENGTH bytes long and ends on a char boundary
TruncateLabel(label) ==
  Take(label, Max({n \in 0..Len(label) : StrLen(Take(label, n)) <= MAX_LABEL_LENGTH}))

\* WebgraphWriter::insert
Insert(g, from, to, label, rel) ==
  /\ phase[g] = "writer"
  /\ \A h \in 1..(g - 1) : phase[h] # "writer"
  /\ id2node' = [id2node EXCEPT ![g] =
                   Id2NodePut(Id2NodePut(@, NodeIdOf(from), from), NodeIdOf(to), to)]
  /\ wbuf' = [wbuf EXCEPT ![g] = Append(@,
                [from |-> NodeDatum(NodeIdOf(from), SortKeyOf(NodeIdOf(from))),
                 to |-> NodeDatum(NodeIdOf(to), SortKeyOf(NodeIdOf(to))),
                 label |-> TruncateLabel(label), rel |-> rel])]
  /\ inserted' = inserted + 1
  /\ UNCHANGED <<phase, segments, meta, disk_meta, dir_exists, disk_segments, next_uuid,
                 absorbed, compacted>>

\* the fresh id of the segment the writer on directory g commits
WriterUuid(g) == g

\* WebgraphWriter::commit: the buffered sub-segments are merged into one new
\* segment directory and metadata.json is rewritten
WriterCommit(g, tb) ==
  /\ disk_segments' = disk_segments @@
       (WriterUuid(g) :>
          [path |-> g,
           data |-> SegmentMerge([i \in 1..Len(wbuf[g]) |-> SubSegment(wbuf[g][i])], tb)])
  /\ disk_meta' = [disk_meta EXCEPT ![g] = Append(meta[g], WriterUuid(g))]
  /\ wbuf' = [wbuf EXCEPT ![g] = <<>>]

\* WebgraphWriter::finalize: commit, then Webgraph::open on the directory
Finalize(g) ==
  /\ phase[g] = "writer"
  /\ \A h \in 1..(g - 1) : phase[h] # "writer"
  /\ \E tb \in TieBreaks : WriterCommit(g, tb)
  /\ meta' = [meta EXCEPT ![g] = disk_meta'[g]]
  /\ segments' = [segments EXCEPT ![g] = OpenSegments(g, disk_meta'[g])]
  /\ phase' = [phase EXCEPT ![g] = "open"]
  /\ UNCHANGED <<id2node, dir_exists, next_uuid, inserted, absorbed, compacted>>

\* a merge that keeps the rows of self only
merge_id2node_self_only(g, other) == id2node[g]

\* Webgraph::merge, self.id2node.merge(other.id2node) and flush
merge_id2node(g, other) == Id2NodeMerge(id2node[g], id2node[other])

\* a merge that leaves the directories of other where they are
merge_rename_nothing(g, other) == disk_segments

\* Webgraph::merge, the renames of the loop: every directory an open handle of
\* other reads is moved under g
merge_rename(g, other) ==
  [id \in DOMAIN disk_segments |->
     IF \E i \in 1..Len(segments[other]) :
          segments[other][i].id = id /\ Readable(disk_segments, segments[other][i])
     THEN [disk_segments[id] EXCEPT !.path = g]
     ELSE disk_segments[id]]

\* a merge that lists the ids of other before the ids of self
merge_comitted_segments_prepend(g, other) == SegmentIds(segments[other]) \o meta[g]

\* Webgraph::merge, self.meta.comitted_segments after the pushes of the loop
merge_comitted_segments(g, other) == meta[g] \o SegmentIds(segments[other])

\* a merge that replaces the handles of self by the handles of other
merge_segments_replace(g, other) ==
  [i \in 1..Len(segments[other]) |-> SegmentOpen(g, segments[other][i].id)]

\* Webgraph::merge, self.segments after the pushes of the loop
merge_segments(g, other) ==
  segments[g] \o [i \in 1..Len(segments[other]) |-> SegmentOpen(g, segments[other][i].id)]

\* fs::remove_dir_all(other_folder): what is left of the segment directories
remove_dir_all(dirs, folder) == [id \in {d \in DOMAIN dirs : dirs[d].path # folder} |-> dirs[id]]

\* Webgraph::merge
Merge(g, other) ==
  /\ g # other
  /\ phase[g] = "open"
  /\ phase[other] = "open"
  /\ id2node' = [id2node EXCEPT ![g] = merge_id2node(g, other), ![other] = <<>>]
  /\ meta' = [meta EXCEPT ![g] = merge_comitted_segments(g, other), ![other] = <<>>]
  /\ segments' = [segments EXCEPT ![g] = merge_segments(g, other), ![other] = <<>>]
  /\ disk_segments' = remove_dir_all(merge_rename(g, other), other)
  /\ dir_exists' = [dir_exists EXCEPT ![other] = FALSE]
  /\ disk_meta' = [disk_meta EXCEPT ![g] = meta'[g], ![other] = <<>>]
  /\ phase' = [phase EXCEPT ![other] = "gone"]
  /\ absorbed' = [absorbed EXCEPT ![other] = g]
  /\ UNCHANGED <<wbuf, next_uuid, inserted, compacted>>

\* a compaction that reuses the id of its first input
merge_all_segments_id_reused(g) ==
  IF segments[g] = <<>> THEN next_uuid ELSE segments[g][1].id

\* Webgraph::merge_all_segments, Uuid::new_v4: an id no segment carries
merge_all_segments_id(g) == next_uuid

\* Webgraph::merge_all_segments, Segment::merge on the taken segments: the
\* inputs are consumed and the compacted segment is written under g
merge_all_segments_dirs(g, id, tb) ==
  (id :> [path |-> g,
          data |-> SegmentMerge([i \in 1..Len(segments[g]) |-> SegmentData(disk_segments, segments[g][i])], tb)])
  @@ [old \in DOMAIN disk_segments \ {segments[g][i].id : i \in 1..Len(segments[g])} |->
        disk_segments[old]]

\* Webgraph::merge_all_segments
MergeAllSegments(g) ==
  /\ phase[g] = "open"
  /\ next_uuid <= NumGraphs + MaxCompactions
  /\ LET id == merge_all_segments_id(g)
     IN /\ \E tb \in TieBreaks : disk_segments' = merge_all_segments_dirs(g, id, tb)
        /\ segments' = [segments EXCEPT ![g] = <<SegmentOpen(g, id)>>]
        /\ meta' = [meta EXCEPT ![g] = <<id>>]
        /\ disk_meta' = [disk_meta EXCEPT ![g] = meta'[g]]
        /\ compacted' = compacted \cup {<<g, id, Len(segments[g])>>}
  /\ next_uuid' = next_uuid + 1
  /\ UNCHANGED <<phase, wbuf, id2node, dir_exists, inserted, absorbed>>

\* what the whole-call operations below leave alone
Frame == UNCHANGED <<step_vars, mi_vars, em_vars, aux_vars>>

Next ==
  \/ \E g \in Paths, from \in Nodes, to \in Nodes, p \in Payloads :
       inserted < MaxInserts /\ Insert(g, from, to, p.label, p.rel) /\ Frame
  \/ \E g \in Paths : Finalize(g) /\ Frame
  \/ \E g \in Paths : Open(g) /\ Frame
  \/ \E g \in Paths, other \in Paths : Merge(g, other) /\ Frame
  \/ \E g \in Paths : MergeAllSegments(g) /\ Frame

Spec == Init /\ [][Next]_vars

\* the same operations on fewer directories with more edges, for the queries
NextQuery ==
  \/ \E g \in QueryPaths, from \in Nodes, to \in Nodes, p \in Payloads :
       inserted < MaxQueryInserts /\ Insert(g, from, to, p.label, p.rel) /\ Frame
  \/ \E g \in QueryPaths : Finalize(g) /\ Frame
  \/ \E g \in QueryPaths, other \in QueryPaths : Merge(g, other) /\ Frame
  \/ \E g \in QueryPaths : MergeAllSegments(g) /\ Frame

SpecQuery == Init /\ [][NextQuery]_vars

\* ------------------------------------------------- the calls, line by line
\* serde_json::to_string_pretty(&Meta): the text of metadata.json, token by
\* token; 0 opens the list of segment ids and -1 closes it
ToJson(comitted_segments) == <<0>> \o comitted_segments \o <<-1>>

\* a parser that hands back the ids it has read when the text breaks off
FromJson_salvaging(buf) ==
  LET ids == {k \in 1..Len(buf) : buf[k] > 0}
  IN [p \in 1..Cardinality(ids) |->
        buf[CHOOSE k \in ids : Cardinality({j \in ids : j <= k}) = p]]

\* serde_json::from_str(&buf).unwrap_or_default() in Meta::open: the list of a
\* complete text, the default (empty) list of anything else
FromJson(buf) ==
  IF /\ Len(buf) >= 2
     /\ buf[1] = 0
     /\ buf[Len(buf)] = -1
     /\ \A k \in 2..(Len(buf) - 1) : buf[k] > 0
  THEN SubSeq(buf, 2, Len(buf) - 1)
  ELSE <<>>

\* the state a call starts from
Before(g) == [segments |-> segments[g], meta |-> meta[g], json |-> metadata_json[g]]

\* WebgraphWriter::insert, with the writer's directory alone in play
StepInsert(g, from, to, label, rel) ==
  /\ Insert(g, from, to, label, rel)
  /\ UNCHANGED <<step_vars, mi_vars, em_vars, aux_vars>>

\* WebgraphWriter::finalize; the commit writes metadata.json in one piece
StepFinalize(g) ==
  /\ Finalize(g)
  /\ metadata_json' = [metadata_json EXCEPT ![g] = ToJson(disk_meta'[g])]
  /\ UNCHANGED <<pc, optimized, mi_vars, em_vars, aux_vars>>

\* Webgraph::merge, lines 159-161: other is moved into the call, its id2node
\* is merged into self's and flushed
MergeCall(g, other) ==
  /\ g # other
  /\ phase[g] = "open" /\ pc[g].op = "idle"
  /\ phase[other] = "open" /\ pc[other].op = "idle"
  /\ id2node' = [id2node EXCEPT ![g] = merge_id2node(g, other)]
  /\ phase' = [phase EXCEPT ![other] = "moved"]
  /\ pc' = [pc EXCEPT ![g] = Pc("merge", "for", other, 1, <<>>, 0, Before(g), "")]
  /\ UNCHANGED <<wbuf, segments, meta, disk_meta, dir_exists, disk_segments, next_uuid,
                 inserted, absorbed, compacted, metadata_json, optimized, mi_vars, em_vars, aux_vars>>

\* Webgraph::merge, one iteration of the loop (lines 163-171): rename the
\* directory of the segment, push its id on meta, push the reopened handle
MergeLoop(g) ==
  /\ pc[g].op = "merge" /\ pc[g].at = "for"
  /\ pc[g].i <= Len(segments[pc[g].other])
  /\ LET segment == segments[pc[g].other][pc[g].i]
     IN /\ disk_segments' =
             IF Readable(disk_segments, segment)
             THEN [disk_segments EXCEPT ![segment.id].path = g]
             ELSE disk_segments
        /\ meta' = [meta EXCEPT ![g] = Append(@, segment.id)]
        /\ segments' = [segments EXCEPT ![g] = Append(@, SegmentOpen(g, segment.id))]
  /\ pc' = [pc EXCEPT ![g].i = @ + 1]
  /\ UNCHANGED <<phase, wbuf, id2node, disk_meta, dir_exists, next_uuid, inserted,
                 absorbed, compacted, metadata_json, optimized, mi_vars, em_vars, aux_vars>>

\* Webgraph::merge, line 173: fs::remove_dir_all(other_folder)
MergeRemoveDir(g) ==
  /\ pc[g].op = "merge" /\ pc[g].at = "for"
  /\ pc[g].i > Len(segments[pc[g].other])
  /\ LET other == pc[g].other
     IN /\ disk_segments' = remove_dir_all(disk_segments, other)
        /\ dir_exists' = [dir_exists EXCEPT ![other] = FALSE]
        /\ disk_meta' = [disk_meta EXCEPT ![other] = <<>>]
        /\ metadata_json' = [metadata_json EXCEPT ![other] = <<>>]
        /\ id2node' = [id2node EXCEPT ![other] = <<>>]
        /\ segments' = [segments EXCEPT ![other] = <<>>]
        /\ meta' = [meta EXCEPT ![other] = <<>>]
        /\ phase' = [phase EXCEPT ![other] = "gone"]
        /\ absorbed' = [absorbed EXCEPT ![other] = g]
  /\ pc' = [pc EXCEPT ![g].at = "save_metadata"]
  /\ UNCHANGED <<wbuf, next_uuid, inserted, compacted, optimized, mi_vars, em_vars, aux_vars>>

\* Webgraph::merge_all_segments, lines 181-184: the segments are taken out of
\* self and the id of the new segment is drawn
MergeAllSegmentsCall(g) ==
  /\ phase[g] = "open" /\ pc[g].op = "idle"
  /\ next_uuid <= NumGraphs + MaxCompactions
  /\ segments' = [segments EXCEPT ![g] = <<>>]
  /\ pc' = [pc EXCEPT ![g] = Pc("merge_all_segments", "Segment::merge", 0, 0, segments[g],
                               merge_all_segments_id(g), Before(g), "")]
  /\ next_uuid' = next_uuid + 1
  /\ UNCHANGED <<phase, wbuf, meta, id2node, disk_meta, dir_exists, disk_segments, inserted,
                 absorbed, compacted, metadata_json, optimized, mi_vars, em_vars, aux_vars>>

\* Segment::merge on the taken segments: the compacted segment is written
\* under g and the inputs are deleted
SegmentMergeDirs(g, taken, id, tb) ==
  (id :> [path |-> g,
          data |-> SegmentMerge([i \in 1..Len(taken) |-> SegmentData(disk_segments, taken[i])],
                                tb)])
  @@ [old \in DOMAIN disk_segments \ {taken[i].id : i \in 1..Len(taken)} |->
        disk_segments[old]]

\* Webgraph::merge_all_segments, line 186, Segment::merge returns Ok
MergeAllSegmentsMerged(g) ==
  /\ pc[g].op = "merge_all_segments" /\ pc[g].at = "Segment::merge"
  /\ \E tb \in TieBreaks :
       disk_segments' = SegmentMergeDirs(g, pc[g].taken, pc[g].id, tb)
  /\ pc' = [pc EXCEPT ![g].at = "push"]
  /\ UNCHANGED <<phase, wbuf, segments, meta, id2node, disk_meta, dir_exists, next_uuid,
                 inserted, absorbed, compacted, metadata_json, optimized, mi_vars, em_vars, aux_vars>>

\* Webgraph::merge_all_segments, line 186, Segment::merge returns Err and the
\* question mark returns it: the taken segments are dropped with the call
MergeAllSegmentsFailed(g) ==
  /\ pc[g].op = "merge_all_segments" /\ pc[g].at = "Segment::merge"
  /\ pc' = [pc EXCEPT ![g] = [Idle EXCEPT !.ret = "Err"]]
  /\ UNCHANGED <<webgraph_vars, metadata_json, optimized, mi_vars, em_vars, aux_vars>>

\* Webgraph::merge_all_segments, lines 187-190: open and push the new segment,
\* meta lists its id alone
MergeAllSegmentsPush(g) ==
  /\ pc[g].op = "merge_all_segments" /\ pc[g].at = "push"
  /\ segments' = [segments EXCEPT ![g] = Append(@, SegmentOpen(g, pc[g].id))]
  /\ meta' = [meta EXCEPT ![g] = <<pc[g].id>>]
  /\ compacted' = compacted \cup {<<g, pc[g].id, Len(pc[g].taken)>>}
  /\ pc' = [pc EXCEPT ![g].at = "save_metadata"]
  /\ UNCHANGED <<phase, wbuf, id2node, disk_meta, dir_exists, disk_segments, next_uuid,
                 inserted, absorbed, metadata_json, optimized, mi_vars, em_vars, aux_vars>>

\* Meta::save, lines 77-85: metadata.json is opened with truncate(true)
SaveTruncate(g) ==
  /\ pc[g].at = "save_metadata"
  /\ metadata_json' = [metadata_json EXCEPT ![g] = <<>>]
  /\ disk_meta' = [disk_meta EXCEPT ![g] = FromJson(<<>>)]
  /\ pc' = [pc EXCEPT ![g].at = "write_all"]
  /\ UNCHANGED <<phase, wbuf, segments, meta, id2node, dir_exists, disk_segments, next_uuid,
                 inserted, absorbed, compacted, optimized, mi_vars, em_vars, aux_vars>>

\* Meta::save, lines 87-88: write_all and the flush of the BufWriter put the
\* text into the file, n more tokens at a time; after the last one the call
\* that saved returns Ok
SaveWrite(g, n) ==
  /\ pc[g].at = "write_all"
  /\ LET json == ToJson(meta[g])
         written == Len(metadata_json[g])
     IN /\ n >= 1 /\ written + n <= Len(json)
        /\ metadata_json' = [metadata_json EXCEPT ![g] = SubSeq(json, 1, written + n)]
        /\ disk_meta' = [disk_meta EXCEPT ![g] = FromJson(metadata_json'[g])]
        /\ pc' = [pc EXCEPT ![g] =
                    IF written + n = Len(json)
                    THEN [Idle EXCEPT !.ret = "Ok"]
                    ELSE @]
  /\ UNCHANGED <<phase, wbuf, segments, meta, id2node, dir_exists, disk_segments, next_uuid,
                 inserted, absorbed, compacted, optimized, mi_vars, em_vars, aux_vars>>

\* Segment::optimize_read: the handle with its caches warmed; its id, its
\* directory and its edges are what they were
Segment_optimize_read(segment) == segment

\* the segments of a facade that takes them out of self to optimize them and
\* does not put them back
optimize_read_segments_taken(self_segments) == <<>>

\* executor.map of Segment::optimize_read over self.segments.iter_mut():
\* every segment is optimized in its place in the list
optimize_read_segments(self_segments) ==
  [i \in 1..Len(self_segments) |-> Segment_optimize_read(self_segments[i])]

\* what has been optimized for reading once optimize_read has run over the
\* segments and over id2node
Optimized(opt, self_segments) ==
  [segments |-> opt.segments \cup Range(SegmentIds(self_segments)), id2node |-> TRUE]

\* Webgraph::optimize_read: Segment::optimize_read on every open handle, then
\* Id2NodeDb::optimize_read
OptimizeRead(g) ==
  /\ phase[g] = "open" /\ pc[g].op = "idle"
  /\ segments' = [segments EXCEPT ![g] = optimize_read_segments(@)]
  /\ optimized' = [optimized EXCEPT ![g] = Optimized(@, segments'[g])]
  /\ UNCHANGED <<phase, wbuf, meta, id2node, disk_meta, dir_exists, disk_segments,
                 next_uuid, inserted, absorbed, compacted, metadata_json, pc,
                 mi_vars, em_vars, aux_vars>>

NextSteps ==
  \/ \E g \in QueryPaths, from \in Nodes, to \in Nodes, p \in Payloads :
       inserted < MaxStepInserts /\ StepInsert(g, from, to, p.label, p.rel)
  \/ \E g \in QueryPaths : StepFinalize(g)
  \/ \E g \in QueryPaths, other \in QueryPaths : MergeCall(g, other)
  \/ \E g \in QueryPaths : MergeLoop(g)
  \/ \E g \in QueryPaths : MergeRemoveDir(g)
  \/ \E g \in QueryPaths : MergeAllSegmentsCall(g)
  \/ \E g \in QueryPaths : MergeAllSegmentsMerged(g)
  \/ \E g \in QueryPaths : MergeAllSegmentsFailed(g)
  \/ \E g \in QueryPaths : MergeAllSegmentsPush(g)
  \/ \E g \in QueryPaths : SaveTruncate(g)
  \/ \E g \in QueryPaths, n \in 1..(NumQueryGraphs + 2) : SaveWrite(g, n)
  \/ \E g \in QueryPaths : OptimizeRead(g)

SpecSteps == Init /\ [][NextSteps]_vars

\* ------------------------------------------------------ the two mergers
\* the number of calls made on a merger: two more than it has groups to give
MaxAdvanceCalls == NumNodes + 2
MaxNextCalls == MaxSortKey + 2

\* an input of MergeIter: the records of the nodes of S in ascending NodeID
\* order, as the node index of a segment yields them; range tells the records
\* of different inputs apart
MergeInput(S, i) ==
  [p \in 1..Cardinality(S) |-> MergeNode(SortedSeq(S)[p], <<i, p>>, "()")]

\* a record left in buf by an earlier use
StaleBuf == <<MergeNode(0, <<0, 0>>, 0)>>

\* MergeIter::new over up to MaxInputs inputs, buf as the caller hands it in
InitMergeIter ==
  /\ InitWebgraph
  /\ NoEdgeMerger
  /\ NoAux
  /\ \E k \in 0..MaxInputs : \E sets \in [1..k -> SUBSET NodeIDs] :
       mi_inputs = [i \in 1..k |-> MergeInput(sets[i], i)]
  /\ mi_iters = MergeIterNew(mi_inputs)
  /\ mi_buf \in {<<>>, StaleBuf}
  /\ mi_log = <<>>

\* one call of MergeIter::advance
MergeIterAdvance(tb) ==
  /\ Len(mi_log) < MaxAdvanceCalls
  /\ \E r \in {advance(mi_iters, mi_buf, tb)} :
       /\ mi_iters' = r.iters
       /\ mi_buf' = r.buf
       /\ mi_log' = Append(mi_log, [ret |-> r.ret, buf |-> r.buf, before |-> mi_buf])
  /\ UNCHANGED <<mi_inputs, webgraph_vars, step_vars, em_vars, aux_vars>>

NextMergeIter == \E tb \in TieBreaks : MergeIterAdvance(tb)

SpecMergeIter == InitMergeIter /\ [][NextMergeIter]_vars

\* the neighbor data an adjacency list can hold
NodeData == {NodeDatum(id, sort_key) : id \in NodeIDs, sort_key \in 1..MaxSortKey}

\* the elements of a set of NodeDatum in ascending (sort_key, id) order
SortedData(S) ==
  [p \in 1..Cardinality(S) |->
     CHOOSE x \in S :
       Cardinality({y \in S : \/ y.sort_key < x.sort_key
                              \/ (y.sort_key = x.sort_key /\ y.id <= x.id)}) = p]

\* an input of EdgeMerger: the adjacency list of one node in one segment,
\* sorted by the neighbor; the label tells the edges of different inputs apart
EdgeInput(S, i) ==
  [p \in 1..Cardinality(S) |-> StoredEdge(SortedData(S)[p], i, 0)]

\* EdgeMerger::new over up to MaxInputs inputs
InitEdgeMerger ==
  /\ InitWebgraph
  /\ NoMergeIter
  /\ NoAux
  /\ \E k \in 0..MaxInputs :
       \E sets \in [1..k -> {S \in SUBSET NodeData : Cardinality(S) <= MaxEdgesPerInput}] :
         em_inputs = [i \in 1..k |-> EdgeInput(sets[i], i)]
  /\ em_iters = em_inputs
  /\ em_log = <<>>

\* one call of EdgeMerger::next
EdgeMergerNext(tb) ==
  /\ Len(em_log) < MaxNextCalls
  /\ \E r \in {EdgeMerger_next(em_iters, tb)} :
       /\ em_iters' = r.iters
       /\ em_log' = Append(em_log, r.res)
  /\ UNCHANGED <<em_inputs, webgraph_vars, step_vars, mi_vars, aux_vars>>

NextEdgeMerger == \E tb \in TieBreaks : EdgeMergerNext(tb)

SpecEdgeMerger == InitEdgeMerger /\ [][NextEdgeMerger]_vars

\* ------------------------------------------------------ the label cap
\* the labels the writers are fed: up to MAX_LABEL_LENGTH + 1 chars of one
\* or two bytes
LabelChars == {Char("a", 1), Char("u:", 2)}

Labels == UNION {[1..n -> LabelChars] : n \in 0..(MAX_LABEL_LENGTH + 1)}

LabelNodes == 1..NumLabelNodes

\* WebgraphWriter::insert, the edge as it was handed in remembered
InsertLabel(g, from, to, label, rel) ==
  /\ inserted < MaxLabelInserts
  /\ Insert(g, from, to, label, rel)
  /\ inserted_edges' = inserted_edges \cup
       {[n |-> inserted + 1, writer |-> g, from |-> NodeIdOf(from), to |-> NodeIdOf(to),
         label |-> label, rel |-> rel]}
  /\ UNCHANGED <<step_vars, mi_vars, em_vars, readers, opens, pure_vars>>

NextLabels ==
  \/ \E g \in QueryPaths, from \in LabelNodes, label \in Labels :
       \E to \in LabelNodes \ {from} : InsertLabel(g, from, to, label, 0)
  \/ \E g \in QueryPaths : Finalize(g) /\ Frame
  \/ \E g \in QueryPaths, other \in QueryPaths : Merge(g, other) /\ Frame
  \/ \E g \in QueryPaths : MergeAllSegments(g) /\ Frame

SpecLabels == Init /\ [][NextLabels]_vars

\* ------------------------------------------------------------ RelFlags
\* RelFlags: a bitset; two of its bits
IS_IN_FOOTER == 1
TAG == 2
RelFlags == {0, IS_IN_FOOTER, TAG, IS_IN_FOOTER + TAG}

NextRel ==
  \/ \E g \in QueryPaths, from \in Nodes, to \in Nodes, rel \in RelFlags :
       InsertLabel(g, from, to, <<>>, rel)
  \/ \E g \in QueryPaths : Finalize(g) /\ Frame
  \/ \E g \in QueryPaths, other \in QueryPaths : Merge(g, other) /\ Frame
  \/ \E g \in QueryPaths : MergeAllSegments(g) /\ Frame

SpecRel == Init /\ [][NextRel]_vars

\* ------------------------------------------------------ concurrent reads
\* the six queries in the order of SixQueries: the Segment method their loader
\* calls and the side of the edge their dedup and their sort look at
QueryLoader ==
  <<"outgoing_edges_with_label", "ingoing_edges_with_label", "outgoing_edges",
    "ingoing_edges", "outgoing_edges_with_label", "ingoing_edges_with_label">>

QuerySide == <<"to", "from", "to", "from", "to", "from">>

\* an executor that hands the results back in the order the lookups finished
ExecutorMap_completion_order(loaded, order) == [k \in 1..Len(order) |-> loaded[order[k]]]

\* executor.map(loader, self.segments.iter()): the results of the lookups in
\* the order of the segments, whatever order they finished in
ExecutorMap(loaded, order) == [i \in 1..Len(order) |-> loaded[i]]

\* what query q does with the joined results of executor.map: flatten, dedup,
\* sort by sort_key, limit, and for the two non-raw queries resolve the nodes
AfterMap(self, q, mapped, limit) ==
  LET flat == Flatten(mapped)
      deduped == IF QuerySide[q] = "from" THEN DedupFrom(flat) ELSE DedupTo(flat)
      sorted == StableSortByKey(deduped, QuerySide[q], "sort_key")
      limited == EdgeLimitApply(limit, sorted)
  IN IF q <= 2 THEN FullEdges(self, limited)
     ELSE [i \in 1..Len(limited) |-> Edge(limited[i])]

\* a thread calls query q for node u on the open graph g; the graph has
\* several segments for the executor to spread the lookups over
StartQuery(t, g, q, u, limit) ==
  /\ readers[t].st = "idle"
  /\ phase[g] = "open"
  /\ Len(segments[g]) >= 2
  /\ readers' = [readers EXCEPT ![t] =
                   [st |-> "map", g |-> g, q |-> q, u |-> u, limit |-> limit,
                    loaded |-> [i \in 1..Len(segments[g]) |-> <<>>], order |-> <<>>,
                    result |-> <<>>,
                    self |-> [path |-> g, segments |-> segments[g], id2node |-> id2node[g],
                              meta |-> meta[g]]]]
  /\ UNCHANGED <<webgraph_vars, step_vars, mi_vars, em_vars, inserted_edges, opens, pure_vars>>

\* the executor runs the loader of thread t on segment i
Lookup(t, i) ==
  /\ readers[t].st = "map"
  /\ i \in 1..Len(readers[t].loaded)
  /\ \A k \in 1..Len(readers[t].order) : readers[t].order[k] # i
  /\ readers' = [readers EXCEPT
                   ![t].loaded[i] = Loader(QueryLoader[readers[t].q], disk_segments,
                                           segments[readers[t].g][i],
                                           NodeIdOf(readers[t].u), readers[t].limit),
                   ![t].order = Append(@, i)]
  /\ UNCHANGED <<webgraph_vars, step_vars, mi_vars, em_vars, inserted_edges, opens, pure_vars>>

\* every lookup of thread t has finished: the rest of the query runs on the
\* thread itself
Join(t) ==
  /\ readers[t].st = "map"
  /\ Len(readers[t].order) = Len(readers[t].loaded)
  /\ readers' = [readers EXCEPT
                   ![t].st = "done",
                   ![t].result = AfterMap([path |-> readers[t].g,
                                           segments |-> segments[readers[t].g],
                                           id2node |-> id2node[readers[t].g],
                                           meta |-> meta[readers[t].g]], readers[t].q,
                                          ExecutorMap(readers[t].loaded, readers[t].order),
                                          readers[t].limit)]
  /\ UNCHANGED <<webgraph_vars, step_vars, mi_vars, em_vars, inserted_edges, opens, pure_vars>>

\* the query of thread t returns
Return(t) ==
  /\ readers[t].st = "done"
  /\ readers' = [readers EXCEPT ![t] = NoQuery]
  /\ UNCHANGED <<webgraph_vars, step_vars, mi_vars, em_vars, inserted_edges, opens, pure_vars>>

\* the writes need the facade for themselves: no query is running
NoReader == \A t \in Threads : readers[t].st = "idle"

NextReads ==
  \/ \E g \in QueryPaths, to \in LabelNodes, p \in Payloads :
       NoReader /\ inserted < MaxReadInserts /\ Insert(g, 1, to, p.label, p.rel) /\ Frame
  \/ \E g \in QueryPaths : NoReader /\ Finalize(g) /\ Frame
  \/ \E g \in QueryPaths, other \in QueryPaths : NoReader /\ Merge(g, other) /\ Frame
  \/ \E t \in Threads, g \in QueryPaths, q \in 1..6 :
       \E limit \in {Unlimited, Limit(1)} : StartQuery(t, g, q, 1, limit)
  \/ \E t \in Threads, i \in 1..NumQueryGraphs : Lookup(t, i)
  \/ \E t \in Threads : Join(t)
  \/ \E t \in Threads : Return(t)

SpecReads == Init /\ [][NextReads]_vars

\* ------------------------------------------- the orders of merge.rs
\* the three types of merge.rs that implement Ord and PartialEq by hand
Comparables == {"NodeDatum", "StoredEdge", "MergeNode"}

\* the operands: every neighbor datum, every edge to one with either of two
\* labels and rels, every MergeNode with either of two ranges and ords
Operands(type) ==
  CASE type = "NodeDatum" -> NodeData
    [] type = "StoredEdge" ->
         {StoredEdge(d, l, r) : d \in NodeData, l \in 1..NumOperandLabels, r \in {0, IS_IN_FOOTER}}
    [] type = "MergeNode" ->
         {MergeNode(n, <<i, 1>>, o) : n \in NodeIDs, i \in 1..NumOperandLabels,
                                      o \in 1..NumOperandLabels}

\* Ord::cmp of the type
Cmp(type, a, b) ==
  CASE type = "NodeDatum" -> NodeDatumCmp(a, b)
    [] type = "StoredEdge" -> StoredEdgeCmp(a, b)
    [] type = "MergeNode" -> MergeNodeCmp(a, b)

\* PartialEq::eq of the type
Eq(type, a, b) ==
  CASE type = "NodeDatum" -> NodeDatumEq(a, b)
    [] type = "StoredEdge" -> StoredEdgeEq(a, b)
    [] type = "MergeNode" -> MergeNodeEq(a, b)

NothingReturned == [ab |-> 0, ba |-> 0, bc |-> 0, ac |-> 0, eq_ab |-> FALSE]

\* three operands of one type, nothing compared yet
InitCmp ==
  /\ InitWebgraph
  /\ NoMergeIter
  /\ NoEdgeMerger
  /\ NoReads
  /\ NoOpens
  /\ NoCopies
  /\ NoSampled
  /\ NoHighlighted
  /\ NoJob
  /\ \E type \in Comparables : \E a, b, c \in Operands(type) :
       compared = [type |-> type, a |-> a, b |-> b, c |-> c,
                   called |-> FALSE, returned |-> NothingReturned]

\* a.cmp(&b), b.cmp(&a), b.cmp(&c), a.cmp(&c) and a == b
Compare(type) ==
  /\ compared.type = type
  /\ ~compared.called
  /\ compared' = [compared EXCEPT
       !.called = TRUE,
       !.returned = [ab |-> Cmp(type, compared.a, compared.b),
                     ba |-> Cmp(type, compared.b, compared.a),
                     bc |-> Cmp(type, compared.b, compared.c),
                     ac |-> Cmp(type, compared.a, compared.c),
                     eq_ab |-> Eq(type, compared.a, compared.b)]]
  /\ UNCHANGED <<webgraph_vars, step_vars, mi_vars, em_vars, inserted_edges, readers, opens,
                 copies, sampled, highlighted, job>>

NextCmp == \E type \in Comparables : Compare(type)

SpecCmp == InitCmp /\ [][NextCmp]_vars

\* --------------------------------------- copies of an edge in several segments
\* the node the query is about
DedupNode == NodeIdOf(1)

\* the rel the writer of segment i stored
RelOfCopy(i) == IF i % 2 = 1 THEN IS_IN_FOOTER ELSE 0

\* the adjacency lists a segment can hold for the node: at most one edge to a
\* neighbor, sorted by the neighbor datum; the writers of different segments
\* may have stored different sort keys for one neighbor
AdjacencySets ==
  {S \in SUBSET NodeData :
     /\ Cardinality(S) <= MaxEdgesPerInput
     /\ \A x, y \in S : x.id = y.id => x = y}

\* the list as segment i holds it: the label names the segment
CopyIn(S, i) == [p \in 1..Cardinality(S) |-> StoredEdge(SortedData(S)[p], i, RelOfCopy(i))]

\* the segment directories holding the lists, for both directions
DedupDisk(lists) ==
  [i \in 1..Len(lists) |->
     [path |-> 1,
      data |-> [forward |-> [EmptyIndex EXCEPT ![DedupNode] = lists[i]],
                reverse |-> [EmptyIndex EXCEPT ![DedupNode] = lists[i]]]]]

\* the facade over them, the segments in list order
DedupGraph(lists) ==
  [path |-> 1, segments |-> [i \in 1..Len(lists) |-> SegmentOpen(1, i)],
   id2node |-> <<>>, meta |-> [i \in 1..Len(lists) |-> i]]

\* a graph of two or more segments, nothing queried yet
InitDedup ==
  /\ InitWebgraph
  /\ NoMergeIter
  /\ NoEdgeMerger
  /\ NoReads
  /\ NoOpens
  /\ NoCompared
  /\ NoSampled
  /\ NoHighlighted
  /\ NoJob
  /\ \E k \in 2..NumDedupSegments : \E sets \in [1..k -> AdjacencySets] :
       copies = [lists |-> [i \in 1..k |-> CopyIn(sets[i], i)], called |-> FALSE,
                  side |-> "to", limit |-> Unlimited, result |-> <<>>]

\* raw_outgoing_edges_with_labels (side "to") or raw_ingoing_edges_with_labels
\* (side "from") of the node
DedupQuery(side, limit) ==
  /\ ~copies.called
  /\ copies' = [copies EXCEPT
       !.called = TRUE, !.side = side, !.limit = limit,
       !.result = IF side = "to"
                  THEN raw_outgoing_edges_with_labels(DedupGraph(copies.lists),
                         DedupDisk(copies.lists), DedupNode, limit)
                  ELSE raw_ingoing_edges_with_labels(DedupGraph(copies.lists),
                         DedupDisk(copies.lists), DedupNode, limit)]
  /\ UNCHANGED <<webgraph_vars, step_vars, mi_vars, em_vars, inserted_edges, readers, opens,
                 compared, sampled, highlighted, job>>

NextDedup == \E side \in {"to", "from"}, limit \in {Unlimited, Limit(1)} : DedupQuery(side, limit)

SpecDedup == InitDedup /\ [][NextDedup]_vars

\* ------------------------------------------------- opening a graph again
\* Meta::open on path/metadata.json: the file is created when it is missing,
\* read, and parsed with the default for a text that does not parse
Meta_open(g) == FromJson(IF dir_exists[g] THEN metadata_json[g] ELSE <<>>)

\* the Webgraph of g is dropped, by a return, a panic or the end of the process
\* at any line of a call, or its directory has been removed; Webgraph::open is
\* called on the path again
Reopen(g) ==
  /\ phase[g] \in {"open", "gone"}
  /\ opens[g].n < MaxReopens
  /\ dir_exists' = [dir_exists EXCEPT ![g] = TRUE]
  /\ meta' = [meta EXCEPT ![g] = Meta_open(g)]
  /\ segments' = [segments EXCEPT ![g] = OpenSegments(g, Meta_open(g))]
  /\ phase' = [phase EXCEPT ![g] = "open"]
  /\ pc' = [pc EXCEPT ![g] = [Idle EXCEPT !.ret = "opened"]]
  /\ optimized' = [optimized EXCEPT ![g] = [segments |-> {}, id2node |-> FALSE]]
  /\ opens' = [opens EXCEPT ![g] = [n |-> @.n + 1, exists |-> dir_exists[g],
                                    found |-> IF dir_exists[g] THEN metadata_json[g] ELSE <<>>]]
  /\ UNCHANGED <<wbuf, id2node, disk_meta, disk_segments, next_uuid, inserted, absorbed,
                 compacted, metadata_json, mi_vars, em_vars, inserted_edges, readers,
                 pure_vars>>

\* the calls line by line, on edges out of one node, and the opens
NextOpen ==
  \/ \E g \in QueryPaths, to \in LabelNodes, p \in Payloads :
       inserted < MaxStepInserts /\ StepInsert(g, 1, to, p.label, p.rel)
  \/ \E g \in QueryPaths : StepFinalize(g)
  \/ \E g \in QueryPaths, other \in QueryPaths : MergeCall(g, other)
  \/ \E g \in QueryPaths : MergeLoop(g)
  \/ \E g \in QueryPaths : MergeRemoveDir(g)
  \/ \E g \in QueryPaths : MergeAllSegmentsCall(g)
  \/ \E g \in QueryPaths : MergeAllSegmentsMerged(g)
  \/ \E g \in QueryPaths : MergeAllSegmentsPush(g)
  \/ \E g \in QueryPaths : SaveTruncate(g)
  \/ \E g \in QueryPaths, n \in 1..(NumQueryGraphs + 2) : SaveWrite(g, n)
  \/ \E g \in QueryPaths : Reopen(g)

SpecOpen == Init /\ [][NextOpen]_vars

\* ------------------------------------------------ random_nodes_with_outgoing
\* an iterator adaptor that lets every element through
unique_keeping_repeats(s) == s

\* Itertools::unique: the elements in order, each at its first occurrence only
unique(s) ==
  LET first == {i \in 1..Len(s) : \A j \in 1..(i - 1) : s[j] # s[i]}
  IN [p \in 1..Cardinality(first) |->
        s[CHOOSE i \in first : Cardinality({j \in first : j <= i}) = p]]

\* IteratorRandom::choose_multiple(rng, amount): amount elements of the
\* iterator, all of them when it has fewer, at positions and in an order the
\* rng decides
choose_multiple(s, amount) ==
  LET k == IF amount < Len(s) THEN amount ELSE Len(s)
  IN {[i \in 1..k |-> s[f[i]]] :
        f \in {h \in [1..k -> 1..Len(s)] : \A i, j \in 1..k : h[i] = h[j] => i = j}}

\* SliceRandom::shuffle: the elements in an order the rng decides
shuffle(v) ==
  {[i \in 1..Len(v) |-> v[f[i]]] :
     f \in {h \in [1..Len(v) -> 1..Len(v)] : \A i, j \in 1..Len(v) : h[i] = h[j] => i = j}}

\* Webgraph::random_nodes_with_outgoing: the vectors it can return
random_nodes_with_outgoing(self, fs, num) ==
  LET es == edges(self, fs)
      froms == unique([i \in 1..Len(es) |-> es[i].from])
  IN UNION {shuffle(nodes) : nodes \in choose_multiple(froms, num)}

\* a call of random_nodes_with_outgoing(num) on graph g
RandomNodesWithOutgoing(g, num) ==
  /\ phase[g] = "open"
  /\ \E self \in {[path |-> g, segments |-> segments[g], id2node |-> id2node[g],
                   meta |-> meta[g]]} :
       \E nodes \in random_nodes_with_outgoing(self, disk_segments, num) :
         sampled' = [g |-> g, num |-> num, edges |-> edges(self, disk_segments),
                     nodes |-> nodes]
  /\ UNCHANGED <<webgraph_vars, step_vars, mi_vars, em_vars, inserted_edges, readers, opens,
                 compared, copies, highlighted, job>>

\* graphs of edges into one node, and the samples taken of them
NextSample ==
  \/ \E g \in QueryPaths, from \in Nodes :
       inserted < MaxQueryInserts /\ Insert(g, from, 1, <<>>, 0) /\ Frame
  \/ \E g \in QueryPaths : Finalize(g) /\ Frame
  \/ \E g \in QueryPaths, other \in QueryPaths : Merge(g, other) /\ Frame
  \/ \E g \in QueryPaths : MergeAllSegments(g) /\ Frame
  \/ \E g \in QueryPaths, num \in 0..MaxSample : RandomNodesWithOutgoing(g, num)

SpecSample == Init /\ [][NextSample]_vars

\* ------------------------------------------------------------ autosuggest.rs
\* the chars of the queries and the suggestions: two of one byte, one of two
StrChars == {Char("t", 1), Char("e", 1), Char("u:", 2)}

Strs == UNION {[1..n -> StrChars] : n \in 0..MaxStrLen}

\* Iterator::skip(n) on the chars of a string
Skip(str, n) == SubSeq(str, (IF n < Len(str) THEN n ELSE Len(str)) + 1, Len(str))

B_OPEN == <<Char("<", 1), Char("b", 1), Char(">", 1)>>
B_CLOSE == <<Char("<", 1), Char("/", 1), Char("b", 1), Char(">", 1)>>

\* suggestion.chars().zip(query.chars()).position(|(s, q)| s != q): the index
\* of the first pair of chars that differ, counted from 0; {} when there is none
ZipPosition(suggestion, query) ==
  LET n == IF Len(suggestion) < Len(query) THEN Len(suggestion) ELSE Len(query)
      differ == {i \in 1..n : suggestion[i] # query[i]}
  IN IF differ = {} THEN {} ELSE {Min(differ) - 1}

\* highlight(query, suggestion)
highlight(query, suggestion) ==
  LET position == ZipPosition(suggestion, query)
      idx == IF position = {} THEN StrLen(query) ELSE CHOOSE i \in position : TRUE
  IN Take(suggestion, idx) \o B_OPEN \o Skip(suggestion, idx) \o B_CLOSE

\* a query and a suggestion
InitHighlight ==
  /\ InitWebgraph
  /\ NoMergeIter
  /\ NoEdgeMerger
  /\ NoReads
  /\ NoOpens
  /\ NoCompared
  /\ NoCopies
  /\ NoSampled
  /\ NoJob
  /\ \E query \in Strs, suggestion \in Strs :
       highlighted = [query |-> query, suggestion |-> suggestion, called |-> FALSE,
                      returned |-> <<>>]

\* the call of highlight
Highlight ==
  /\ ~highlighted.called
  /\ highlighted' = [highlighted EXCEPT
       !.called = TRUE,
       !.returned = highlight(highlighted.query, highlighted.suggestion)]
  /\ UNCHANGED <<webgraph_vars, step_vars, mi_vars, em_vars, inserted_edges, readers, opens,
                 compared, copies, sampled, job>>

NextHighlight == Highlight

SpecHighlight == InitHighlight /\ [][NextHighlight]_vars

\* ------------------------------------------------- entrypoint/webgraph.rs
\* the links Html::links can yield: the protocol of the destination, the
\* domains of the two ends, and whether the link matches the URL regex
Protocols == {"http", "https", "ftp"}

Domains == 1..NumDomains

Links ==
  [protocol : Protocols, source : {1}, destination : Domains, matches_url_regex : BOOLEAN]

\* a chain of filters that lets a link of any protocol through
LinkFilter_any_protocol(link) ==
  /\ link.source # link.destination
  /\ link.matches_url_regex

\* the three filters on webpage.links(): the destination is http or https, the
\* domains of source and destination differ, the link matches the URL regex
LinkFilter(link) ==
  /\ link.protocol \in {"http", "https"}
  /\ link.source # link.destination
  /\ link.matches_url_regex

\* the edge graph.insert is handed for a link: Node::from drops the protocol
LinkEdge(link) == [source |-> link.source, destination |-> link.destination]

\* a job that goes on to the next file when a file does not open
OpenErr_next_file(j) == [j EXCEPT !.pc = "next", !.taken = @ + 1]

\* `if let Ok(file) = WarcFile::open(&path)` on an Err: the body is skipped,
\* the flush and the remove_file after it are not
OpenErr(j) == [j EXCEPT !.pc = "flush"]

\* async_process_job is called: the graph is opened, the stream of downloads
\* is set up, nothing is downloaded yet; opens tells the files WarcFile::open
\* can read from the ones it cannot
InitJob ==
  /\ InitWebgraph
  /\ NoMergeIter
  /\ NoEdgeMerger
  /\ NoReads
  /\ NoOpens
  /\ NoCompared
  /\ NoCopies
  /\ NoSampled
  /\ NoHighlighted
  /\ \E k \in 1..MaxWarcFiles : \E opens_ok \in [1..k -> BOOLEAN] :
       job = [warc_paths |-> [i \in 1..k |-> i], opens |-> opens_ok, pc |-> "next",
              yielded |-> <<>>, taken |-> 0, cur |-> 0, nlinks |-> 0, disk |-> {},
              graph |-> [buf |-> <<>>, flushed |-> <<>>], log |-> <<>>]

JobFrame ==
  UNCHANGED <<webgraph_vars, step_vars, mi_vars, em_vars, inserted_edges, readers, opens,
              compared, copies, sampled, highlighted>>

\* async_download_all_warc_files: one more file is on disk under warc_files/
\* and its path is queued on the stream
Download(f) ==
  /\ f \in Range(job.warc_paths)
  /\ f \notin Range(job.yielded)
  /\ job' = [job EXCEPT !.yielded = Append(@, f), !.disk = @ \cup {f},
                        !.log = Append(@, <<"download", f>>)]
  /\ JobFrame

\* warc_files.next().await yields Some(warc_path)
StreamNext ==
  /\ job.pc = "next"
  /\ job.taken < Len(job.yielded)
  /\ job' = [job EXCEPT !.pc = "open", !.cur = job.yielded[job.taken + 1], !.nlinks = 0,
                        !.log = Append(@, <<"next", job.yielded[job.taken + 1]>>)]
  /\ JobFrame

\* WarcFile::open(&path)
WarcOpen ==
  /\ job.pc = "open"
  /\ job' = IF job.opens[job.cur] /\ job.cur \in job.disk
            THEN [job EXCEPT !.pc = "records"]
            ELSE OpenErr(job)
  /\ JobFrame

\* one link of a record of the file: inserted when it passes the filters
Link(link) ==
  /\ job.pc = "records"
  /\ job.nlinks < MaxLinksPerFile
  /\ job' = [job EXCEPT
       !.nlinks = @ + 1,
       !.graph.buf = IF LinkFilter(link) THEN Append(@, LinkEdge(link)) ELSE @,
       !.log = IF LinkFilter(link)
               THEN @ \o <<<<"link", job.cur, link>>, <<"insert", job.cur, link>>>>
               ELSE Append(@, <<"link", job.cur, link>>)]
  /\ JobFrame

\* the records of the file are exhausted
RecordsEnd ==
  /\ job.pc = "records"
  /\ job' = [job EXCEPT !.pc = "flush"]
  /\ JobFrame

\* graph.flush()
GraphFlush ==
  /\ job.pc = "flush"
  /\ job' = [job EXCEPT !.pc = "remove",
                        !.graph = [buf |-> <<>>, flushed |-> job.graph.flushed \o job.graph.buf],
                        !.log = Append(@, <<"flush", job.cur>>)]
  /\ JobFrame

\* std::fs::remove_file(path).unwrap()
RemoveFile ==
  /\ job.pc = "remove"
  /\ job' = IF job.cur \in job.disk
            THEN [job EXCEPT !.pc = "next", !.taken = @ + 1, !.disk = @ \ {job.cur},
                             !.log = Append(@, <<"remove", job.cur>>)]
            ELSE [job EXCEPT !.pc = "panic"]
  /\ JobFrame

\* warc_files.next().await yields None: the loop ends and the graph is returned
JobReturn ==
  /\ job.pc = "next"
  /\ job.taken = Len(job.warc_paths)
  /\ job' = [job EXCEPT !.pc = "done", !.log = Append(@, <<"return">>)]
  /\ JobFrame

NextJob ==
  \/ \E f \in 1..MaxWarcFiles : Download(f)
  \/ StreamNext
  \/ WarcOpen
  \/ \E link \in Links : Link(link)
  \/ RecordsEnd
  \/ GraphFlush
  \/ RemoveFile
  \/ JobReturn

SpecJob == InitJob /\ [][NextJob]_vars

\* ------------------------------------------------------------ properties
OpenGraphs == {g \in Paths : phase[g] = "open"}

\* the Webgraph open on directory g, now and after the step
Webgraph(g) ==
  [path |-> g, segments |-> segments[g], id2node |-> id2node[g], meta |-> meta[g]]

WebgraphAfter(g) ==
  [path |-> g, segments |-> segments'[g], id2node |-> id2node'[g], meta |-> meta'[g]]

\* the six query operations on node u
SixQueries(self, fs, u, limit) ==
  <<outgoing_edges(self, fs, u, limit),
    ingoing_edges(self, fs, u, limit),
    raw_outgoing_edges(self, fs, NodeIdOf(u), limit),
    raw_ingoing_edges(self, fs, NodeIdOf(u), limit),
    raw_outgoing_edges_with_labels(self, fs, NodeIdOf(u), limit),
    raw_ingoing_edges_with_labels(self, fs, NodeIdOf(u), limit)>>

QueryResults(self, fs) ==
  [u \in Nodes |-> [limit \in Limits |-> SixQueries(self, fs, u, limit)]]

\* a step of merge_all_segments on graph g
MergeAllSegmentsStep(g) == \E c \in compacted' \ compacted : c[1] = g

\* a step of merge(other) on graph g
MergeStep(g, other) == absorbed[other] = 0 /\ absorbed'[other] = g

\* C1: merge_all_segments is semantically idempotent: every ingoing/outgoing
\* query of every node returns the same result immediately before and
\* immediately after merge_all_segments, whatever the segments hold.
C1_MergeAllSegmentsKeepsQueries ==
  [][\A g \in Paths :
       MergeAllSegmentsStep(g) =>
         QueryResults(WebgraphAfter(g), disk_segments') = QueryResults(Webgraph(g), disk_segments)]_vars

\* C2: the edge limit is globally correct across segments: each query with
\* Limit(n) returns the first n entries of the same query with Unlimited.
C2_LimitIsPrefixOfUnlimited ==
  \A g \in OpenGraphs : \A u \in Nodes : \A n \in 0..MaxLimit :
    \A limited \in {SixQueries(Webgraph(g), disk_segments, u, Limit(n))} :
    \A all \in {SixQueries(Webgraph(g), disk_segments, u, Unlimited)} :
      /\ limited[1].edges = Take(all[1].edges, n)
      /\ limited[2].edges = Take(all[2].edges, n)
      /\ \A q \in 3..6 : limited[q] = Take(all[q], n)

\* a graph of several segments where the limit cuts a result that two
\* segments contribute to, one of them more than one edge
C2_Witness ==
  \E g \in OpenGraphs : \E u \in NodeIDs :
    /\ Len(segments[g]) >= 2
    /\ Len(raw_outgoing_edges(Webgraph(g), disk_segments, u, Unlimited)) >= 3
    /\ \E i, j \in 1..Len(segments[g]) :
         /\ i # j
         /\ Len(SegmentData(disk_segments, segments[g][i]).forward[u]) >= 2
         /\ Len(SegmentData(disk_segments, segments[g][j]).forward[u]) >= 1
    /\ Len(raw_outgoing_edges(Webgraph(g), disk_segments, u, Limit(2))) = 2

\* C3: the number of edges outgoing_edges returns under Limit(n) is the
\* minimum of n and the number it returns under Unlimited.
C3_LimitedCount ==
  \A g \in OpenGraphs : \A u \in Nodes : \A n \in 0..MaxLimit :
    LET all == Len(outgoing_edges(Webgraph(g), disk_segments, u, Unlimited).edges)
    IN Len(outgoing_edges(Webgraph(g), disk_segments, u, Limit(n)).edges)
         = IF n < all THEN n ELSE all

\* one edge in each of two segments, asked with Limit(1)
C3_Witness ==
  \E g \in OpenGraphs : \E u \in Nodes :
    /\ Len(segments[g]) >= 2
    /\ \A i \in 1..Len(segments[g]) :
         Len(SegmentData(disk_segments, segments[g][i]).forward[NodeIdOf(u)]) = 1
    /\ Len(outgoing_edges(Webgraph(g), disk_segments, u, Unlimited).edges) = 2
    /\ Len(outgoing_edges(Webgraph(g), disk_segments, u, Limit(1)).edges) = 1

\* the neighbor NodeIDs of the results of the six queries
NeighborIds(results) ==
  <<[i \in 1..Len(results[1].edges) |-> {NodeIdOf(n) : n \in results[1].edges[i].to}],
    [i \in 1..Len(results[2].edges) |-> {NodeIdOf(n) : n \in results[2].edges[i].from}],
    [i \in 1..Len(results[3]) |-> {results[3][i].to}],
    [i \in 1..Len(results[4]) |-> {results[4][i].from}],
    [i \in 1..Len(results[5]) |-> {results[5][i].to}],
    [i \in 1..Len(results[6]) |-> {results[6][i].from}]>>

\* C4: with Unlimited each of the six queries returns each distinct neighbor
\* NodeID at most once.
C4_NeighborsAtMostOnce ==
  \A g \in OpenGraphs : \A u \in Nodes :
    \A results \in {SixQueries(Webgraph(g), disk_segments, u, Unlimited)} :
    \A ids \in {NeighborIds(results)} :
      \A q \in 1..6 : NoDup(ids[q])

\* the same edge is stored in two uncompacted segments, with another edge
\* of the node between the copies
C4_Witness ==
  \E g \in OpenGraphs : \E u \in NodeIDs :
    /\ Len(segments[g]) = 2
    /\ Len(SegmentData(disk_segments, segments[g][1]).forward[u]) = 2
    /\ Len(SegmentData(disk_segments, segments[g][2]).forward[u]) = 1
    /\ SegmentData(disk_segments, segments[g][2]).forward[u][1].other
         = SegmentData(disk_segments, segments[g][1]).forward[u][1].other
    /\ Len(raw_outgoing_edges(Webgraph(g), disk_segments, u, Unlimited)) = 2

\* the sort keys of the neighbors of the results of the six queries
NeighborSortKeys(results) ==
  LET ids == NeighborIds(results)
  IN [q \in 1..6 |-> [i \in 1..Len(ids[q]) |-> {SortKeyOf(id) : id \in ids[q][i]}]]

\* C5: for every limit, the edges each query returns are in ascending order
\* of the neighbor's sort_key.
C5_SortedBySortKey ==
  \A g \in OpenGraphs : \A u \in Nodes : \A limit \in Limits :
    \A results \in {SixQueries(Webgraph(g), disk_segments, u, limit)} :
    \A keys \in {NeighborSortKeys(results)} :
      \A q \in 1..6 : \A i \in 1..(Len(keys[q]) - 1) :
        \A a \in keys[q][i] : \A b \in keys[q][i + 1] : a <= b

\* a result whose order by sort_key is not its order by NodeID
C5_Witness ==
  \E g \in OpenGraphs : \E u \in NodeIDs :
    Len(segments[g]) >= 2 /\
    LET out == raw_outgoing_edges(Webgraph(g), disk_segments, u, Unlimited)
        in == raw_ingoing_edges(Webgraph(g), disk_segments, u, Unlimited)
    IN /\ Len(out) >= 2 /\ out[1].to > out[2].to
       /\ Len(in) >= 2 /\ in[1].from > in[2].from

\* the edges of a graph seen through edges()
ScannedEdges(self, fs) == Range(edges(self, fs))

\* the edges of a graph seen through the six queries, each tagged with its query
QueriedEdges(self, fs) ==
  UNION {UNION {{<<1, e>> : e \in Range(results[1].edges)}
                  \cup {<<2, e>> : e \in Range(results[2].edges)}
                  \cup UNION {{<<q, e>> : e \in Range(results[q])} : q \in 3..6}
                : results \in {SixQueries(self, fs, u, Unlimited)}}
         : u \in Nodes}

\* the NodeIDs of the rows of a graph's id2node
NodeSet(g) == DOMAIN id2node[g]

\* C6: when the node sets of the two graphs are disjoint, the edges visible in
\* the receiving graph after merge (through the queries and through edges())
\* are exactly the edges of the two graphs before it; merge after merge, this
\* folds any number of graphs into one.
C6_MergeIsUnionOfEdges ==
  [][\A g, other \in Paths :
       (MergeStep(g, other) /\ NodeSet(g) \cap NodeSet(other) = {}) =>
         /\ ScannedEdges(WebgraphAfter(g), disk_segments')
              = ScannedEdges(Webgraph(g), disk_segments)
                  \cup ScannedEdges(Webgraph(other), disk_segments)
         /\ QueriedEdges(WebgraphAfter(g), disk_segments')
              = QueriedEdges(Webgraph(g), disk_segments)
                  \cup QueriedEdges(Webgraph(other), disk_segments)]_vars

\* the NodeIDs that are an endpoint of an edge stored in a segment
Endpoints(data) ==
  UNION {IF data.forward[n] = <<>> /\ data.reverse[n] = <<>> THEN {}
         ELSE {n} \cup {data.forward[n][i].other.id : i \in 1..Len(data.forward[n])}
                  \cup {data.reverse[n][i].other.id : i \in 1..Len(data.reverse[n])}
         : n \in NodeIDs}

\* two graphs were folded into g and g shows an edge of each of two segments
\* that share no node
C6_Witness ==
  \E g \in OpenGraphs :
    /\ Cardinality({other \in Paths : absorbed[other] = g}) = 2
    /\ \E i, j \in 1..Len(segments[g]) :
         LET a == Endpoints(SegmentData(disk_segments, segments[g][i]))
             b == Endpoints(SegmentData(disk_segments, segments[g][j]))
         IN a # {} /\ b # {} /\ a \cap b = {}
    /\ Cardinality(ScannedEdges(Webgraph(g), disk_segments)) = 2

\* C7: every NodeID that is an endpoint of an edge in a segment of an open
\* graph has a row in id2node whose node has that id, and the unwrap of
\* outgoing_edges and ingoing_edges never fails.
C7_EndpointsResolve ==
  \A g \in OpenGraphs :
    /\ \A i \in 1..Len(segments[g]) :
         \A id \in Endpoints(SegmentData(disk_segments, segments[g][i])) :
           \E n \in Id2Node(Webgraph(g), id) : NodeIdOf(n) = id
    /\ \A u \in Nodes : \A limit \in Limits :
         /\ ~outgoing_edges(Webgraph(g), disk_segments, u, limit).panic
         /\ ~ingoing_edges(Webgraph(g), disk_segments, u, limit).panic

\* a graph that absorbed another one resolves an edge whose endpoints were
\* registered by the writer of the absorbed graph alone
C7_Witness ==
  \E g \in OpenGraphs : \E u \in Nodes :
    /\ \E other \in Paths : absorbed[other] = g
    /\ Len(segments[g]) >= 2
    /\ Endpoints(SegmentData(disk_segments, segments[g][1])) # {}
    /\ NodeIdOf(u) \notin Endpoints(SegmentData(disk_segments, segments[g][1]))
    /\ LET out == outgoing_edges(Webgraph(g), disk_segments, u, Unlimited)
       IN ~out.panic /\ Len(out.edges) >= 1 /\ out.edges[1].from = {u}

\* C8: after merge(other) the committed list of the receiving graph is its
\* previous list followed by the segment ids of other in other's order, each
\* of these segments is a directory under the receiving graph and open in it,
\* metadata.json holds that list, and other's directory is gone.
C8_MergeAppendsSegments ==
  [][\A g, other \in Paths :
       MergeStep(g, other) =>
         /\ meta'[g] = meta[g] \o SegmentIds(segments[other])
         /\ \A i \in 1..Len(segments[other]) :
              LET id == segments[other][i].id
              IN /\ id \in DOMAIN disk_segments'
                 /\ disk_segments'[id].path = g
                 /\ \E j \in 1..Len(segments'[g]) :
                      segments'[g][j] = SegmentOpen(g, id)
         /\ disk_meta'[g] = meta'[g]
         /\ ~dir_exists'[other]
         /\ \A id \in DOMAIN disk_segments' : disk_segments'[id].path # other]_vars

\* a graph of one segment absorbed a graph of two segments
C8_Witness ==
  \E g \in OpenGraphs : \E other, third \in Paths :
    /\ absorbed[other] = g
    /\ absorbed[third] = other
    /\ Len(meta[g]) = 3
    /\ disk_meta[g] = meta[g]
    /\ ~dir_exists[other]

\* C9: after merge_all_segments, whatever the number of segments before, the
\* graph holds exactly one segment, its id is not among the ids listed before,
\* and meta and metadata.json list exactly that id.
C9_MergeAllSegmentsLeavesOne ==
  [][\A g \in Paths :
       MergeAllSegmentsStep(g) =>
         /\ Len(segments'[g]) = 1
         /\ segments'[g][1].id \notin Range(meta[g])
         /\ meta'[g] = <<segments'[g][1].id>>
         /\ disk_meta'[g] = <<segments'[g][1].id>>]_vars

\* a graph of several segments was compacted
C9_Witness ==
  \E c \in compacted :
    /\ c[3] >= 2
    /\ phase[c[1]] = "open"
    /\ meta[c[1]] = <<c[2]>>
    /\ Len(segments[c[1]]) = 1

\* C10: the committed list of a graph has no duplicate id and every listed id
\* has a directory under that graph.
C10_CommittedSegmentsExist ==
  \A g \in Paths :
    phase[g] # "gone" =>
      /\ NoDup(meta[g])
      /\ \A id \in Range(meta[g]) :
           id \in DOMAIN disk_segments /\ disk_segments[id].path = g
      /\ NoDup(disk_meta[g])
      /\ \A id \in Range(disk_meta[g]) :
           id \in DOMAIN disk_segments /\ disk_segments[id].path = g

\* a graph lists its own segment and the segments moved in by a merge
C10_Witness ==
  \E g \in OpenGraphs :
    /\ \E other \in Paths : absorbed[other] = g
    /\ Len(meta[g]) >= 2
    /\ \A id \in Range(meta[g]) : id \in DOMAIN disk_segments

\* C11: while metadata.json is being rewritten, the file holds either the
\* complete text of the list it held when the call started or the complete
\* text of the new list, never an empty or partly written one.
C11_MetadataRewriteIsAtomic ==
  \A g \in Paths :
    pc[g].at \in {"save_metadata", "write_all"} =>
      metadata_json[g] \in {pc[g].before.json, ToJson(meta[g])}

\* C12: at every step of merge(other) and of merge_all_segments, every
\* segment id the metadata.json of the receiving graph lists has its
\* directory under that graph.
C12_ListedSegmentsOnDisk ==
  \A g \in Paths :
    phase[g] = "open" =>
      \A id \in Range(FromJson(metadata_json[g])) :
        id \in DOMAIN disk_segments /\ disk_segments[id].path = g

\* merge_all_segments returns the error of Segment::merge
MergeAllSegmentsErrStep(g) ==
  pc[g].op = "merge_all_segments" /\ pc'[g].op = "idle" /\ pc'[g].ret = "Err"

\* C13: when Segment::merge fails inside merge_all_segments, the segments and
\* the meta of the facade are what they were before the call and the queries
\* answer as before it.
C13_FailedCompactionChangesNothing ==
  [][\A g \in Paths :
       MergeAllSegmentsErrStep(g) =>
         /\ segments'[g] = pc[g].before.segments
         /\ meta'[g] = pc[g].before.meta
         /\ QueryResults(WebgraphAfter(g), disk_segments')
              = QueryResults([path |-> g, segments |-> pc[g].before.segments,
                              id2node |-> id2node[g], meta |-> pc[g].before.meta],
                             disk_segments)]_vars

\* the nodes that no segment of graph g has an entry for
AbsentNodes(g) ==
  {u \in Nodes :
     \A i \in 1..Len(segments[g]) :
       NodeIdOf(u) \notin Endpoints(SegmentData(disk_segments, segments[g][i]))}

\* C14: each of the six queries, under every limit, returns an empty vector
\* and does not panic for a node that no segment of the graph has an entry
\* for; on a graph without segments that is every node.
C14_AbsentNodeYieldsEmpty ==
  \A g \in OpenGraphs : \A u \in AbsentNodes(g) : \A limit \in Limits :
    \A results \in {SixQueries(Webgraph(g), disk_segments, u, limit)} :
      /\ results[1] = [panic |-> FALSE, edges |-> <<>>]
      /\ results[2] = [panic |-> FALSE, edges |-> <<>>]
      /\ \A q \in 3..6 : results[q] = <<>>

\* a graph without segments, and a graph whose segments hold edges while one
\* node has neither an entry in them nor a row in id2node
C14_Witness ==
  /\ \E g \in OpenGraphs : segments[g] = <<>> /\ AbsentNodes(g) = Nodes
  /\ \E g \in OpenGraphs : \E u \in AbsentNodes(g) :
       /\ Len(segments[g]) >= 2
       /\ \A i \in 1..Len(segments[g]) :
            Endpoints(SegmentData(disk_segments, segments[g][i])) # {}
       /\ Id2Node(Webgraph(g), NodeIdOf(u)) = {}
       /\ raw_ingoing_edges(Webgraph(g), disk_segments, NodeIdOf(u), Unlimited) = <<>>
       /\ outgoing_edges(Webgraph(g), disk_segments, u, Limit(1)).edges = <<>>

\* the records of the inputs of MergeIter, each with the index of its input
TaggedRecords ==
  UNION {{MergeNode(mi_inputs[i][p].node, mi_inputs[i][p].range, i - 1) :
            p \in 1..Len(mi_inputs[i])} : i \in 1..Len(mi_inputs)}

\* the calls of advance so far that returned true, and the number of groups
\* a record was handed out in
TrueCalls == {c \in 1..Len(mi_log) : mi_log[c].ret}

TimesGrouped(r) ==
  Cardinality({<<c, j>> \in TrueCalls \X (1..MaxInputs) :
                 j <= Len(mi_log[c].buf) /\ mi_log[c].buf[j] = r})

\* C15: over inputs strictly sorted by NodeID, the groups advance hands out
\* have strictly increasing NodeIDs; a group holds exactly one record of every
\* input that holds the NodeID, tagged with the index of its input, and
\* nothing else (what buf held before the call is gone); no record is handed
\* out twice, and once advance has returned false every record of every input
\* has been handed out.
C15_GroupsByNode ==
  /\ \A c \in TrueCalls :
       \E n \in NodeIDs :
         /\ Range(mi_log[c].buf) = {r \in TaggedRecords : r.node = n}
         /\ NoDup(mi_log[c].buf)
         /\ mi_log[c].buf # <<>>
         /\ \A d \in TrueCalls : d < c => \A r \in Range(mi_log[d].buf) : r.node < n
  /\ \A r \in TaggedRecords : TimesGrouped(r) <= 1
  /\ (\E c \in 1..Len(mi_log) : ~mi_log[c].ret) =>
       \A r \in TaggedRecords : TimesGrouped(r) = 1
  /\ mi_log # <<>> => mi_buf = mi_log[Len(mi_log)].buf

\* three inputs, a node that all of them hold and a node that one of them
\* holds; buf was not empty before the first call; advance has returned false
C15_Witness ==
  /\ Len(mi_inputs) = 3
  /\ Len(mi_log) >= 3
  /\ mi_log[1].before = StaleBuf
  /\ \E c \in TrueCalls : {r.ord : r \in Range(mi_log[c].buf)} = {0, 1, 2}
  /\ \E c \in TrueCalls : c >= 2 /\ Len(mi_log[c].buf) = 1 /\ mi_log[c].before # <<>>
  /\ ~mi_log[Len(mi_log)].ret

\* C16: advance returns true once for every distinct NodeID of the inputs and
\* false from then on; it returns false only when every input is exhausted
\* (at the first call when there is no input or every input is empty), and
\* buf is empty whenever it returns false.
C16_AdvanceTerminates ==
  \A distinct \in {Cardinality({r.node : r \in TaggedRecords})} :
    /\ Cardinality(TrueCalls) <= distinct
    /\ \A c \in 1..Len(mi_log) :
         ~mi_log[c].ret =>
           /\ Cardinality(TrueCalls) = distinct
           /\ \A i \in 1..Len(mi_iters) : mi_iters[i] = <<>>
           /\ mi_log[c].buf = <<>>
           /\ \A e \in c..Len(mi_log) : ~mi_log[e].ret

\* an input is exhausted while another one still holds two records; advance
\* went on, gave every group and then returned false twice
C16_Witness ==
  /\ Len(mi_inputs) >= 2
  /\ Len(mi_inputs[1]) = 1
  /\ Len(mi_inputs[2]) = 3
  /\ mi_inputs[2][1].node = mi_inputs[1][1].node
  /\ Len(mi_log) = 5
  /\ TrueCalls = {1, 2, 3}
  /\ mi_log[3].before # <<>>
  /\ mi_buf = <<>>

\* the edges of the inputs of EdgeMerger and their sort keys
InputEdges == UNION {Range(em_inputs[i]) : i \in 1..Len(em_inputs)}

InputSortKeys == {e.other.sort_key : e \in InputEdges}

\* the calls of next so far that returned an edge, and the edge
SomeCalls == {c \in 1..Len(em_log) : em_log[c] # {}}

Emitted(c) == CHOOSE e \in em_log[c] : TRUE

\* C17: over inputs sorted by (sort_key, id), the edges next returns are
\* edges of the inputs in strictly increasing order of sort_key; it returns
\* None only when an edge of every sort key of the inputs has been returned,
\* and then on every further call.
C17_OneEdgePerSortKey ==
  /\ \A c \in SomeCalls :
       /\ Emitted(c) \in InputEdges
       /\ \A d \in SomeCalls :
            d < c => Emitted(d).other.sort_key < Emitted(c).other.sort_key
  /\ \A c \in 1..Len(em_log) :
       em_log[c] = {} =>
         /\ {Emitted(d).other.sort_key : d \in SomeCalls} = InputSortKeys
         /\ \A e \in c..Len(em_log) : em_log[e] = {}

\* three inputs that share a sort key and hold another one each;
\* next has returned two edges and then None twice
C17_Witness ==
  /\ Len(em_inputs) = 3
  /\ \A i \in 1..3 : Len(em_inputs[i]) = 2
  /\ \E k \in InputSortKeys :
       \A i \in 1..3 : \E p \in 1..2 : em_inputs[i][p].other.sort_key = k
  /\ Cardinality(InputSortKeys) = 2
  /\ Len(em_log) = 4
  /\ SomeCalls = {1, 2}

\* the neighbors of the inputs that carry sort key k
SameSortKey(k) == {e.other : e \in {x \in InputEdges : x.other.sort_key = k}}

\* C18: when edges to different neighbors share a sort key, in different
\* inputs or one after the other in the same input, next returns one edge of
\* that sort key, the edge to the neighbor of least NodeID among them, and no
\* edge to any of the other neighbors.
C18_TiedSortKeyKeepsMinimum ==
  \A k \in InputSortKeys :
    \A least \in {CHOOSE x \in SameSortKey(k) : \A y \in SameSortKey(k) : x.id <= y.id} :
      /\ Cardinality({c \in SomeCalls : Emitted(c).other.sort_key = k}) <= 1
      /\ \A c \in SomeCalls :
           Emitted(c).other.sort_key = k => Emitted(c).other = least
      /\ (\E c \in 1..Len(em_log) : em_log[c] = {}) =>
           \E c \in SomeCalls : Emitted(c).other = least

\* one input holds two neighbors of the same sort key one after the other,
\* another input holds a third neighbor of that sort key with the least
\* NodeID; the edge to the third has been returned, then None
C18_Witness ==
  /\ Len(em_inputs) = 2
  /\ Len(em_inputs[1]) = 2
  /\ Len(em_inputs[2]) = 1
  /\ em_inputs[1][1].other.sort_key = em_inputs[1][2].other.sort_key
  /\ em_inputs[2][1].other.sort_key = em_inputs[1][1].other.sort_key
  /\ em_inputs[2][1].other.id < em_inputs[1][1].other.id
  /\ em_inputs[1][1].other.id < em_inputs[1][2].other.id
  /\ Len(em_log) = 2
  /\ em_log[1] = {em_inputs[2][1]}
  /\ em_log[2] = {}

\* a step of optimize_read on graph g that finds something not yet optimized
OptimizeReadStep(g) == optimized'[g] # optimized[g]

\* C19: optimize_read leaves the segment list, meta and metadata.json of the
\* graph and the segment directories as they are, every query returns after
\* it what it returned before it, and a second optimize_read right after it
\* changes nothing further.
C19_OptimizeReadKeepsGraph ==
  [][\A g \in Paths :
       OptimizeReadStep(g) =>
         /\ segments'[g] = segments[g]
         /\ meta'[g] = meta[g]
         /\ metadata_json'[g] = metadata_json[g]
         /\ disk_meta'[g] = disk_meta[g]
         /\ disk_segments' = disk_segments
         /\ QueryResults(WebgraphAfter(g), disk_segments')
              = QueryResults(Webgraph(g), disk_segments)
         /\ optimize_read_segments(segments'[g]) = segments'[g]
         /\ Optimized(optimized'[g], optimize_read_segments(segments'[g]))
              = optimized'[g]]_vars

\* a graph of two segments that hold edges has been optimized for reading
\* after a merge brought the second segment in
C19_Witness ==
  \E g \in OpenGraphs :
    /\ Len(segments[g]) = 2
    /\ pc[g].op = "idle"
    /\ optimized[g].id2node
    /\ optimized[g].segments = Range(SegmentIds(segments[g]))
    /\ \A i \in 1..2 : Endpoints(SegmentData(disk_segments, segments[g][i])) # {}
    /\ metadata_json[g] = ToJson(meta[g])

\* the edges the forward index of a segment stores, as Edge<()>
StoredIn(fs, segment) ==
  UNION {{[from |-> n, to |-> SegmentData(fs, segment).forward[n][i].other.id,
           label |-> "()", rel |-> SegmentData(fs, segment).forward[n][i].rel] :
            i \in 1..Len(SegmentData(fs, segment).forward[n])} : n \in NodeIDs}

\* the number of edges the first j segments of a graph store
RECURSIVE StoredUpTo(_, _, _)
StoredUpTo(self, fs, j) ==
  IF j = 0 THEN 0
  ELSE StoredUpTo(self, fs, j - 1) + Cardinality(StoredIn(fs, self.segments[j]))

\* C20: edges() yields the edges of the committed segments, segment after
\* segment in the order of the list: an edge is yielded as many times as
\* there are segments that store it (so every stored edge at least once and
\* no edge that no segment stores), and on a graph that merge_all_segments
\* has left with its one segment no (from, to) pair is yielded twice.
C20_EdgesYieldsEverySegment ==
  \A g \in OpenGraphs :
    \A self \in {Webgraph(g)} : \A yielded \in {edges(self, disk_segments)} :
      /\ Len(yielded) = StoredUpTo(self, disk_segments, Len(self.segments))
      /\ \A p \in 1..Len(yielded) : \A j \in 1..Len(self.segments) :
           (StoredUpTo(self, disk_segments, j - 1) < p
              /\ p <= StoredUpTo(self, disk_segments, j)) =>
             yielded[p] \in StoredIn(disk_segments, self.segments[j])
      /\ \A e \in Range(yielded)
                  \cup UNION {StoredIn(disk_segments, self.segments[j]) :
                                j \in 1..Len(self.segments)} :
           Cardinality({p \in 1..Len(yielded) : yielded[p] = e})
             = Cardinality({j \in 1..Len(self.segments) :
                              e \in StoredIn(disk_segments, self.segments[j])})
      /\ (\E c \in compacted : c[1] = g /\ self.meta = <<c[2]>>) =>
           \A p, q \in 1..Len(yielded) :
             (yielded[p].from = yielded[q].from /\ yielded[p].to = yielded[q].to) => p = q

\* a graph of two segments: one edge is stored in both and yielded twice,
\* another edge is stored in the second segment alone and yielded last
C20_Witness ==
  \E g \in OpenGraphs :
    \E yielded \in {edges(Webgraph(g), disk_segments)} :
      /\ Len(segments[g]) = 2
      /\ Len(yielded) = 3
      /\ \E p, q \in 1..3 : p # q /\ yielded[p] = yielded[q]
      /\ yielded[3] \notin StoredIn(disk_segments, segments[g][1])

\* merge_all_segments folded two segments that stored the same edge into
\* one: edges() yields two edges, the shared one once
C20_WitnessCompacted ==
  \E c \in compacted :
    /\ c[3] = 2
    /\ phase[c[1]] = "open"
    /\ meta[c[1]] = <<c[2]>>
    /\ inserted = 3
    /\ Len(edges(Webgraph(c[1]), disk_segments)) = 2

\* the edges with a label among the results of the six queries (the raw
\* queries without labels return the unit label and are left out)
LabelledEdges(results) ==
  {[from |-> NodeIdOf(CHOOSE n \in x.from : TRUE), to |-> NodeIdOf(CHOOSE n \in x.to : TRUE),
    label |-> x.label] :
     x \in {y \in Range(results[1].edges) \cup Range(results[2].edges) :
               y.from # {} /\ y.to # {}}}
    \cup {[from |-> x.from, to |-> x.to, label |-> x.label] :
            x \in Range(results[5]) \cup Range(results[6])}

\* the labels of the edges from -> to the queries of a graph return
ReturnedLabels(self, fs, from, to) ==
  UNION {{x.label : x \in {y \in LabelledEdges(results) : y.from = from /\ y.to = to}}
         : results \in {SixQueries(self, fs, u, Unlimited) : u \in Nodes}}

\* the labels stored in a segment directory
StoredLabels(data) ==
  UNION {{data.forward[n][i].label : i \in 1..Len(data.forward[n])}
           \cup {data.reverse[n][i].label : i \in 1..Len(data.reverse[n])}
         : n \in NodeIDs}

\* C21: the label a query returns for an edge is the label the edge was
\* inserted with when that is at most MAX_LABEL_LENGTH bytes long, otherwise
\* its longest prefix of at most MAX_LABEL_LENGTH bytes that ends on a char
\* boundary (MAX_LABEL_LENGTH bytes exactly when the chars are one byte
\* each); no stored label is longer than MAX_LABEL_LENGTH bytes, also after
\* merge and merge_all_segments.
C21_LabelCap ==
  /\ \A g \in OpenGraphs : \A u \in Nodes :
       \A results \in {SixQueries(Webgraph(g), disk_segments, u, Unlimited)} :
       \A x \in LabelledEdges(results) : \A label \in {x.label} :
         \E e \in inserted_edges :
           /\ e.from = x.from /\ e.to = x.to
           /\ label = IF StrLen(e.label) <= MAX_LABEL_LENGTH THEN e.label
                      ELSE Take(e.label,
                                Max({n \in 0..Len(e.label) :
                                       StrLen(Take(e.label, n)) <= MAX_LABEL_LENGTH}))
           /\ (\A i \in 1..Len(e.label) : e.label[i].len_utf8 = 1)
                /\ Len(e.label) = MAX_LABEL_LENGTH + 1 => StrLen(label) = MAX_LABEL_LENGTH
  /\ \A id \in DOMAIN disk_segments :
       \A label \in StoredLabels(disk_segments[id].data) : StrLen(label) <= MAX_LABEL_LENGTH

\* a label of MAX_LABEL_LENGTH + 1 one-byte chars and a label whose last
\* char straddles the cap were inserted into two graphs; after merge and
\* merge_all_segments the queries return them cut to MAX_LABEL_LENGTH and
\* MAX_LABEL_LENGTH - 1 bytes
C21_Witness ==
  \E c \in compacted : \E e1, e2 \in inserted_edges :
    /\ c[3] = 2 /\ phase[c[1]] = "open" /\ meta[c[1]] = <<c[2]>>
    /\ e1.label = [i \in 1..(MAX_LABEL_LENGTH + 1) |-> Char("a", 1)]
    /\ e2.label = [i \in 1..MAX_LABEL_LENGTH |->
                     IF i < MAX_LABEL_LENGTH THEN Char("a", 1) ELSE Char("u:", 2)]
    /\ \E l1 \in ReturnedLabels(Webgraph(c[1]), disk_segments, e1.from, e1.to) :
         StrLen(l1) = MAX_LABEL_LENGTH
    /\ \E l2 \in ReturnedLabels(Webgraph(c[1]), disk_segments, e2.from, e2.to) :
         StrLen(l2) = MAX_LABEL_LENGTH - 1

\* the graph that holds what the writer on directory w wrote: the graph of
\* the writer once finalized, or the graph it was merged into
RECURSIVE Holder(_)
Holder(w) == IF absorbed[w] = 0 THEN w ELSE Holder(absorbed[w])

\* the edges inserted once: no other insert names the same two nodes
InsertedOnce ==
  {e \in inserted_edges :
     \A x \in inserted_edges : (x.from = e.from /\ x.to = e.to) => x.n = e.n}

\* the endpoints and the rel of the edges of a query result
WithoutLabel(es) == {[from |-> es[i].from, to |-> es[i].to, rel |-> es[i].rel] : i \in 1..Len(es)}

\* the edges from -> to among the results of the four raw queries asked at
\* from (outgoing) and at to (ingoing)
RawEdges(self, fs, from, to) ==
  {x \in WithoutLabel(raw_outgoing_edges(self, fs, from, Unlimited))
          \cup WithoutLabel(raw_outgoing_edges_with_labels(self, fs, from, Unlimited))
          \cup WithoutLabel(raw_ingoing_edges(self, fs, to, Unlimited))
          \cup WithoutLabel(raw_ingoing_edges_with_labels(self, fs, to, Unlimited)) :
     x.from = from /\ x.to = to}

\* whenever a raw query returns an edge that was inserted once, with or
\* without its label, the edge carries the rel it was inserted with
RelIsKept ==
  \A e \in InsertedOnce :
    phase[Holder(e.writer)] = "open" =>
      \A x \in RawEdges(Webgraph(Holder(e.writer)), disk_segments, e.from, e.to) :
        x.rel = e.rel

\* C22: for every edge inserted once with rel R, once its writer is
\* finalized, and also after merge(other) and merge_all_segments,
\* raw_outgoing_edges(from, Unlimited) and raw_ingoing_edges(to, Unlimited)
\* return the edge, with rel exactly R, and so do the queries that
\* materialize the label.
C22_RelFlagsRoundTrip ==
  \A e \in InsertedOnce :
    phase[Holder(e.writer)] = "open" =>
      \A self \in {Webgraph(Holder(e.writer))} :
        /\ \E x \in Range(raw_outgoing_edges(self, disk_segments, e.from, Unlimited)) :
             x.to = e.to /\ x.rel = e.rel
        /\ \E x \in Range(raw_ingoing_edges(self, disk_segments, e.to, Unlimited)) :
             x.from = e.from /\ x.rel = e.rel
        /\ \E x \in Range(raw_outgoing_edges_with_labels(self, disk_segments, e.from, Unlimited)) :
             x.to = e.to /\ x.rel = e.rel
        /\ \E x \in Range(raw_ingoing_edges_with_labels(self, disk_segments, e.to, Unlimited)) :
             x.from = e.from /\ x.rel = e.rel
        /\ \A x \in RawEdges(self, disk_segments, e.from, e.to) : x.rel = e.rel

\* query q of SixQueries, run alone
SingleQuery(self, fs, q, u, limit) ==
  CASE q = 1 -> outgoing_edges(self, fs, u, limit)
    [] q = 2 -> ingoing_edges(self, fs, u, limit)
    [] q = 3 -> raw_outgoing_edges(self, fs, NodeIdOf(u), limit)
    [] q = 4 -> raw_ingoing_edges(self, fs, NodeIdOf(u), limit)
    [] q = 5 -> raw_outgoing_edges_with_labels(self, fs, NodeIdOf(u), limit)
    [] q = 6 -> raw_ingoing_edges_with_labels(self, fs, NodeIdOf(u), limit)

\* C23: whatever the order in which the executor runs the per-segment lookups
\* of the queries that are in flight at the same time, every query returns
\* what the same query returns when it runs alone on the graph, and while
\* queries are in flight the segments list, meta and id2node of the graph are
\* what they were when the queries started.
C23_ConcurrentReads ==
  \A t \in Threads :
    /\ readers[t].st # "idle" => Webgraph(readers[t].g) = readers[t].self
    /\ readers[t].st = "done" =>
         readers[t].result
           = SingleQuery(Webgraph(readers[t].g), disk_segments, readers[t].q,
                         readers[t].u, readers[t].limit)

\* two queries on one graph of two segments that store the same neighbor with
\* different payloads: the lookups of the first ran in list order, those of
\* the second in the opposite order, in between each other
C23_Witness ==
  /\ \A t \in Threads : readers[t].st = "done" /\ readers[t].g = readers[1].g
  /\ readers[1].order = <<1, 2>>
  /\ readers[2].order = <<2, 1>>
  /\ readers[2].q = 5
  /\ \A i \in 1..2 : Len(readers[2].loaded[i]) = 1
  /\ readers[2].loaded[1][1].to = readers[2].loaded[2][1].to
  /\ readers[2].loaded[1][1].label # readers[2].loaded[2][1].label
  /\ Len(readers[2].result) = 1

\* the ids of the segments in memory, the list of meta and the list
\* metadata.json holds are the same list
ListsAgree(g) ==
  /\ SegmentIds(segments[g]) = meta[g]
  /\ meta[g] = FromJson(metadata_json[g])

\* the three lists agree after every call in runs where Segment::merge
\* never fails (the operations of Spec, each run to its return)
ListsAgreeWithoutFailure ==
  \A g \in Paths :
    phase[g] = "open" => SegmentIds(segments[g]) = meta[g] /\ meta[g] = disk_meta[g]

\* C24: whenever an operation of the facade has returned, with Ok or with an
\* error, the ids of the segments in memory, the committed list of meta and
\* the list in metadata.json agree element for element and in order.
C24_ThreeListsAgree ==
  \A g \in Paths :
    (phase[g] = "open" /\ pc[g].op = "idle") => ListsAgree(g)

\* (sort_key, id) lexicographically: -1, 0 or 1
LexSortKeyThenId(x, y) ==
  IF <<x.sort_key, x.id>> = <<y.sort_key, y.id>> THEN 0
  ELSE IF x.sort_key < y.sort_key \/ (x.sort_key = y.sort_key /\ x.id < y.id) THEN -1
  ELSE 1

\* C25: the order and the equality of StoredEdge look at the neighbor datum
\* alone (edges to one (id, sort_key) are Equal and == whatever label and rel);
\* the order of StoredEdge and NodeDatum is the lexicographic order on
\* (sort_key, id), total, and cmp is Equal exactly when == holds; MergeNode is
\* ordered and compared on its NodeID alone.
C25_OrdersOfMerge ==
  compared.called =>
    \A a \in {compared.a}, b \in {compared.b}, r \in {compared.returned} :
      /\ r.ab = -r.ba
      /\ (r.ab <= 0 /\ r.bc <= 0) => r.ac <= 0
      /\ (r.ab < 0 /\ r.bc <= 0) => r.ac < 0
      /\ (r.ab = 0) <=> r.eq_ab
      /\ compared.type = "NodeDatum" => r.ab = LexSortKeyThenId(a, b)
      /\ compared.type = "StoredEdge" =>
           /\ r.ab = LexSortKeyThenId(a.other, b.other)
           /\ (a.other.id = b.other.id /\ a.other.sort_key = b.other.sort_key)
                => (r.ab = 0 /\ r.eq_ab)
      /\ compared.type = "MergeNode" =>
           /\ r.ab = (IF a.node < b.node THEN -1 ELSE IF a.node > b.node THEN 1 ELSE 0)
           /\ r.eq_ab <=> a.node = b.node

\* two edges to one neighbor with different labels and rels have been compared
\* and found Equal, next to an edge to another node with the same sort key
C25_Witness ==
  /\ compared.called
  /\ compared.type = "StoredEdge"
  /\ compared.a.other = compared.b.other
  /\ compared.a.label # compared.b.label
  /\ compared.a.rel # compared.b.rel
  /\ compared.returned.ab = 0
  /\ compared.returned.eq_ab
  /\ compared.c.other.sort_key = compared.a.other.sort_key
  /\ compared.c.other.id > compared.a.other.id
  /\ compared.returned.ac = -1

\* what the lookup of the query returns for segment i
ReturnedBy(i) ==
  Loader(IF copies.side = "to" THEN "outgoing_edges_with_label" ELSE "ingoing_edges_with_label",
         DedupDisk(copies.lists), SegmentOpen(1, i), DedupNode, copies.limit)

\* the neighbor of the queried node in an edge a segment returned
Neighbor(e) == e[copies.side]

\* the segments whose lookup returned an edge to neighbor n
ReturnedIn(n) ==
  {i \in 1..Len(copies.lists) : \E p \in 1..Len(ReturnedBy(i)) : Neighbor(ReturnedBy(i)[p]).id = n}

\* the copy of the edge to neighbor n that the earliest segment returned
EarliestCopy(n) ==
  LET es == ReturnedBy(Min(ReturnedIn(n)))
  IN es[CHOOSE p \in 1..Len(es) : Neighbor(es[p]).id = n]

ReturnedNeighbors == {n \in NodeIDs : ReturnedIn(n) # {}}

\* the neighbor NodeID of a result edge
ResultNeighbor(e) == IF copies.side = "to" THEN e.to ELSE e.from

\* C26: of the copies of an edge that several segments return, the result
\* carries the one of the segment that comes first in the segment list (its
\* label and rel), once, and the results are in the order of the sort keys of
\* these copies; a limit keeps the first of them in that order.
C26_EarliestCopyWins ==
  copies.called =>
    \A res \in {copies.result} :
      /\ \A i \in 1..Len(res) :
           /\ ResultNeighbor(res[i]) \in ReturnedNeighbors
           /\ res[i] = Edge(EarliestCopy(ResultNeighbor(res[i])))
      /\ \A i, j \in 1..Len(res) :
           /\ ResultNeighbor(res[i]) = ResultNeighbor(res[j]) => i = j
           /\ i < j => Neighbor(EarliestCopy(ResultNeighbor(res[i]))).sort_key
                        <= Neighbor(EarliestCopy(ResultNeighbor(res[j]))).sort_key
      /\ copies.limit = Unlimited => Len(res) = Cardinality(ReturnedNeighbors)
      /\ copies.limit = Limit(1) =>
           /\ Len(res) = (IF ReturnedNeighbors = {} THEN 0 ELSE 1)
           /\ \A n \in ReturnedNeighbors :
                Neighbor(EarliestCopy(ResultNeighbor(res[1]))).sort_key
                  <= Neighbor(EarliestCopy(n)).sort_key

\* two segments hold an edge to one neighbor with different labels, rels and
\* sort keys; the result carries the earlier copy, and it comes after another
\* edge that it would precede with the sort key of the later copy
C26_Witness ==
  /\ copies.called
  /\ copies.limit = Unlimited
  /\ Len(copies.result) = 2
  /\ \E n \in ReturnedNeighbors : \E i, j \in ReturnedIn(n) :
       /\ i < j
       /\ i = Min(ReturnedIn(n))
       /\ \E p \in 1..Len(ReturnedBy(j)) :
            /\ Neighbor(ReturnedBy(j)[p]).id = n
            /\ Neighbor(ReturnedBy(j)[p]).sort_key < Neighbor(EarliestCopy(n)).sort_key
            /\ ReturnedBy(j)[p].rel # EarliestCopy(n).rel
            /\ ReturnedBy(j)[p].label # EarliestCopy(n).label
       /\ ResultNeighbor(copies.result[2]) = n
       /\ copies.result[2].label = i

\* graph g has been opened again and no call has been made on it since
JustOpened(g) == phase[g] = "open" /\ pc[g].op = "idle" /\ pc[g].ret = "opened"

\* the segment directories under g/segments that metadata.json does not list
Unlisted(g) ==
  {id \in DOMAIN disk_segments :
     /\ disk_segments[id].path = g
     /\ \A k \in 1..Len(metadata_json[g]) : metadata_json[g][k] # id}

\* the segment directories without the ones in D
WithoutDirs(D) == [id \in DOMAIN disk_segments \ D |-> disk_segments[id]]

\* C27: a graph that has just been opened holds handles on exactly the segments
\* metadata.json lists, in the listed order; a directory under segments/ that
\* is not listed has no handle, and the queries and edges() return what they
\* return without it.
C27_OpenLoadsListedSegments ==
  \A g \in QueryPaths :
    JustOpened(g) =>
      /\ SegmentIds(segments[g]) = FromJson(metadata_json[g])
      /\ meta[g] = FromJson(metadata_json[g])
      /\ \A i \in 1..Len(segments[g]) : segments[g][i].id \notin Unlisted(g)
      /\ Unlisted(g) # {} =>
           /\ QueryResults(Webgraph(g), disk_segments)
                = QueryResults(Webgraph(g), WithoutDirs(Unlisted(g)))
           /\ edges(Webgraph(g), disk_segments) = edges(Webgraph(g), WithoutDirs(Unlisted(g)))

\* a merge was cut off after it had moved a segment with an edge under g and
\* before it saved: g is opened again with its own segment and the moved
\* directory is there, unlisted
C27_Witness ==
  \E g \in QueryPaths :
    /\ JustOpened(g)
    /\ segments[g] # <<>>
    /\ edges(Webgraph(g), disk_segments) # <<>>
    /\ \E id \in Unlisted(g) : disk_segments[id].data # EmptyData

\* the text is the serialisation of a Meta
IsMetaJson(text) ==
  /\ Len(text) >= 2
  /\ \A k \in 2..(Len(text) - 1) : text[k] > 0
  /\ text = ToJson(SubSeq(text, 2, Len(text) - 1))

\* the last open of g found no metadata.json, an empty one or one that is not
\* the serialisation of a Meta
OpenedWithoutMeta(g) ==
  /\ opens[g].n > 0
  /\ ~opens[g].exists \/ opens[g].found = <<>> \/ ~IsMetaJson(opens[g].found)

\* C28: a graph opened on a metadata.json that is missing, empty or does not
\* parse has an empty committed list and no segment, whatever segment
\* directories exist; when a later call on it has saved, the file holds the
\* list the graph has built since, with none of the ids the broken text held.
C28_BrokenMetaOpensEmpty ==
  \A g \in QueryPaths :
    (phase[g] = "open" /\ OpenedWithoutMeta(g)) =>
      /\ JustOpened(g) => (meta[g] = <<>> /\ segments[g] = <<>>)
      /\ (pc[g].op = "idle" /\ pc[g].ret = "Ok") =>
           /\ metadata_json[g] = ToJson(meta[g])
           /\ \A k \in 1..Len(meta[g]), j \in 1..Len(opens[g].found) :
                meta[g][k] # opens[g].found[j]

\* a graph found a metadata.json cut off in the middle of the list while a
\* segment directory was there, and a merge has since saved a list of its own
C28_Witness ==
  \E g \in QueryPaths :
    /\ phase[g] = "open"
    /\ opens[g].exists
    /\ \E j \in 1..Len(opens[g].found) : opens[g].found[j] > 0
    /\ ~IsMetaJson(opens[g].found)
    /\ pc[g].op = "idle" /\ pc[g].ret = "Ok"
    /\ meta[g] # <<>>
    /\ metadata_json[g] = ToJson(meta[g])
    /\ \E id \in DOMAIN disk_segments :
         /\ disk_segments[id].path = g
         /\ \A k \in 1..Len(meta[g]) : meta[g][k] # id

\* a graph has been opened on a directory that was not there, and one on an
\* empty metadata.json next to a segment directory
C28_WitnessMissing ==
  /\ \E g \in QueryPaths : JustOpened(g) /\ ~opens[g].exists /\ meta[g] = <<>>
  /\ \E g \in QueryPaths :
       /\ JustOpened(g) /\ opens[g].exists /\ opens[g].found = <<>> /\ segments[g] = <<>>
       /\ \E id \in DOMAIN disk_segments : disk_segments[id].path = g

\* the distinct `from` ids among the edges edges() yielded to the last call
SampledFroms == {sampled.edges[i].from : i \in 1..Len(sampled.edges)}

\* C29: random_nodes_with_outgoing(n) returns min(n, d) NodeIDs, d the number
\* of distinct `from` ids edges() yields; no id is returned twice, and every id
\* returned is the source of an edge edges() yields.
C29_RandomNodesAreDistinctSources ==
  sampled.g # 0 =>
    /\ Len(sampled.nodes)
         = (IF sampled.num < Cardinality(SampledFroms) THEN sampled.num
            ELSE Cardinality(SampledFroms))
    /\ \A i, j \in 1..Len(sampled.nodes) : sampled.nodes[i] = sampled.nodes[j] => i = j
    /\ \A i \in 1..Len(sampled.nodes) : sampled.nodes[i] \in SampledFroms

\* an edge is stored in two segments, edges() yields three edges from two
\* sources, and a call that asked for more has returned the two
C29_Witness ==
  /\ sampled.g # 0
  /\ Len(segments[sampled.g]) >= 2
  /\ Len(sampled.edges) = 3
  /\ Cardinality(SampledFroms) = 2
  /\ sampled.num = 3
  /\ Len(sampled.nodes) = 2

\* the number of chars of the longest common prefix of two strings
CommonPrefixLen(a, b) ==
  Max({n \in 0..(IF Len(a) < Len(b) THEN Len(a) ELSE Len(b)) :
         \A i \in 1..n : a[i] = b[i]})

\* the string has chars of one byte only
IsAscii(str) == \A i \in 1..Len(str) : str[i].len_utf8 = 1

\* P <b> R </b> with P the longest common prefix of query and suggestion and
\* P R the suggestion
HighlightsCommonPrefix ==
  \A n \in {CommonPrefixLen(highlighted.query, highlighted.suggestion)} :
    highlighted.returned
      = SubSeq(highlighted.suggestion, 1, n) \o B_OPEN
          \o SubSeq(highlighted.suggestion, n + 1, Len(highlighted.suggestion)) \o B_CLOSE

\* C30: for every query and suggestion highlight returns P <b> R </b>, P the
\* longest common character prefix of the two and P followed by R the
\* suggestion.
C30_HighlightsCommonPrefix == highlighted.called => HighlightsCommonPrefix

\* the same for queries of one-byte chars only
HighlightsCommonPrefixOfAscii ==
  (highlighted.called /\ IsAscii(highlighted.query)) => HighlightsCommonPrefix

\* whatever the query, what highlight returns is the suggestion cut in two,
\* the first part at least the common prefix
HighlightKeepsSuggestion ==
  highlighted.called =>
    \E n \in CommonPrefixLen(highlighted.query, highlighted.suggestion)..Len(highlighted.suggestion) :
      highlighted.returned
        = SubSeq(highlighted.suggestion, 1, n) \o B_OPEN
            \o SubSeq(highlighted.suggestion, n + 1, Len(highlighted.suggestion)) \o B_CLOSE

\* the positions of the log at which the job did `what`
JobDid(what) == {i \in 1..Len(job.log) : job.log[i][1] = what}

\* the links the job has handed to graph.insert so far
InsertedLinks == {job.log[i][3] : i \in JobDid("insert")}

\* the links the job has read from the files so far
ExtractedLinks == {job.log[i][3] : i \in JobDid("link")}

\* C31: every link the ingestion job inserts has an http or https destination, a
\* source domain different from its destination domain and matches the URL
\* regex; a link that fails one of the tests is not inserted, and the graph
\* holds the edges of the inserted links and no other.
C31_OnlyCrossDomainWebLinks ==
  /\ \A link \in InsertedLinks :
       /\ link.protocol \in {"http", "https"}
       /\ link.source # link.destination
       /\ link.matches_url_regex
  /\ \A i \in JobDid("link") :
       \/ job.log[i][3].protocol \in {"http", "https"}
            /\ job.log[i][3].source # job.log[i][3].destination
            /\ job.log[i][3].matches_url_regex
       \/ i = Len(job.log)
       \/ job.log[i + 1][1] # "insert"
  /\ Len(job.graph.flushed) + Len(job.graph.buf) = Cardinality(JobDid("insert"))
  /\ \A e \in Range(job.graph.flushed) \cup Range(job.graph.buf) :
       \E link \in InsertedLinks : e = [source |-> link.source, destination |-> link.destination]

\* the job has read a link to another domain over ftp and a link inside one
\* domain over https, has inserted neither, and has inserted a cross-domain
\* https link
C31_Witness ==
  /\ \E link \in ExtractedLinks \ InsertedLinks :
       link.protocol = "ftp" /\ link.source # link.destination /\ link.matches_url_regex
  /\ \E link \in ExtractedLinks \ InsertedLinks :
       link.protocol = "https" /\ link.source = link.destination /\ link.matches_url_regex
  /\ \E link \in InsertedLinks : link.protocol = "https"
  /\ job.pc = "done"

\* the files in the order the job took them from the stream
TakenFiles ==
  LET at == JobDid("next")
  IN [p \in 1..Cardinality(at) |->
        job.log[CHOOSE i \in at : Cardinality({j \in at : j <= i}) = p][2]]

\* the positions of the log at which the job did `what` with file f
JobDidWith(what, f) == {i \in JobDid(what) : job.log[i][2] = f}

\* the link is a cross-domain web link that matches the URL regex
IsCrossDomainWebLink(link) ==
  /\ link.protocol \in {"http", "https"}
  /\ link.source # link.destination
  /\ link.matches_url_regex

\* C32: the job takes the WARC files one at a time in the order the downloads
\* yield them, and takes the next one, or returns, only when the one before has
\* been deleted; a file is deleted only after a flush that comes after the
\* insert of every link read from it; a file that does not open gives no link
\* and is flushed and deleted all the same; the graph is returned only when
\* every file of the job has been deleted and nothing is left unflushed.
C32_FilesOneAtATime ==
  /\ job.pc # "panic"
  /\ TakenFiles = SubSeq(job.yielded, 1, Len(TakenFiles))
  /\ \A i \in JobDid("next") : \A k \in JobDid("next") \cup JobDid("return") :
       i < k => \E r \in JobDidWith("remove", job.log[i][2]) : i < r /\ r < k
  /\ \A r \in JobDid("remove") :
       \E p \in JobDidWith("flush", job.log[r][2]) :
         /\ p < r
         /\ \A i \in JobDidWith("link", job.log[r][2]) :
              /\ i < p
              /\ IsCrossDomainWebLink(job.log[i][3]) =>
                   (job.log[i + 1][1] = "insert" /\ job.log[i + 1][3] = job.log[i][3])
         /\ \A i \in JobDidWith("insert", job.log[r][2]) : i < p
  /\ \A f \in Range(job.warc_paths) :
       ~job.opens[f] => (JobDidWith("link", f) = {} /\ JobDidWith("insert", f) = {})
  /\ \A f \in Range(job.warc_paths) :
       Cardinality(JobDidWith("next", f)) <= 1 /\ Cardinality(JobDidWith("remove", f)) <= 1
  /\ job.pc = "done" =>
       /\ \A f \in Range(job.warc_paths) : JobDidWith("remove", f) # {}
       /\ job.disk = {}
       /\ job.graph.buf = <<>>
       /\ Len(job.graph.flushed) = Cardinality(JobDid("insert"))

\* the job has returned: the second file was downloaded first, before the
\* first was taken; one of the two did not open, the other gave two links that
\* were inserted
C32_Witness ==
  /\ job.pc = "done"
  /\ job.yielded = <<2, 1>>
  /\ job.log[1][1] = "download" /\ job.log[2][1] = "download"
  /\ \E f \in Range(job.warc_paths) :
       ~job.opens[f] /\ JobDidWith("flush", f) # {} /\ JobDidWith("remove", f) # {}
  /\ Len(job.graph.flushed) = 2

====
